---------------------------- MODULE Spec2Model ----------------------------
(***************************************************************************)
(* WatchManager (src/src/main.rs): the interactive stock application.      *)
(*                                                                         *)
(* The model follows the event loop of main(): one action per key the loop *)
(* handles, split as the source splits it (editing: by mode, then by key;  *)
(* not editing: by key, then by mode).  The App struct is the record       *)
(* variable app, one field per field of the struct; the methods of App are *)
(* operators from an App record to an App record.  A Rust String is a      *)
(* sequence of one-character strings.  An Option is a sequence of length   *)
(* 0 (None) or 1 (Some).                                                   *)
(*                                                                         *)
(* app.mensagens: the handlers only ever push to the message log and never *)
(* read it, so the field holds the part of the log pushed by the latest    *)
(* event (the whole log is the concatenation of these parts).              *)
(***************************************************************************)
EXTENDS Integers, Sequences, FiniteSets, TLC

(***************************************************************************)
(* Bounds of the model.                                                    *)
(***************************************************************************)
\* Longest input buffer the operator types when every key is in use.
MaxInput == 3
\* Longest input buffer the operator types when only the forms are in use.
MaxInputLoja == 4
\* Longest history the session builds.
MaxHist == 2
\* Number of calendar days Local::now() may report during the session.
MaxDia == 1
\* Longest query typed into the search view of the accented store.
MaxInputBusca == 2
\* Longest history of the session that scrolls the lists.
MaxHistCursor == 6
\* Number of calendar days the chart's history spans, and its longest history.
MaxDiaGrafico == 9
MaxHistGrafico == 9

Dias == 1..MaxDia

(***************************************************************************)
(* Strings.                                                                *)
(***************************************************************************)
\* The value of the first byte of a character in UTF-8: the order of
\* String::cmp.  "e_agudo" is the character U+00E9 (e with acute accent), the
\* one character of the model that is not ASCII; its bytes are C3 A9.
CharCode(c) ==
  CASE c = " " -> 32
    [] c = "+" -> 43
    [] c = "-" -> 45
    [] c = "/" -> 47
    [] c = "0" -> 48
    [] c = "1" -> 49
    [] c = "2" -> 50
    [] c = "3" -> 51
    [] c = "4" -> 52
    [] c = "5" -> 53
    [] c = "6" -> 54
    [] c = "7" -> 55
    [] c = "8" -> 56
    [] c = "9" -> 57
    [] c = ":" -> 58
    [] c = "a" -> 97
    [] c = "b" -> 98
    [] c = "x" -> 120
    [] c = "e_agudo" -> 195

\* char::len_utf8
Utf8Len(c) == IF c = "e_agudo" THEN 2 ELSE 1

\* str::len: the length in bytes.
RECURSIVE ByteLen(_)
ByteLen(s) == IF s = <<>> THEN 0 ELSE Utf8Len(Head(s)) + ByteLen(Tail(s))

IsDigit(c) == CharCode(c) >= 48 /\ CharCode(c) <= 57

IsWhitespace(c) == c = " "

\* a.cmp(b) == Less for Strings: lexicographic on bytes, a proper prefix first.
RECURSIVE StrLess(_, _)
StrLess(a, b) ==
  IF b = <<>> THEN FALSE
  ELSE IF a = <<>> THEN TRUE
  ELSE IF CharCode(Head(a)) # CharCode(Head(b))
       THEN CharCode(Head(a)) < CharCode(Head(b))
       ELSE StrLess(Tail(a), Tail(b))

RECURSIVE TrimStart(_)
TrimStart(s) ==
  IF s # <<>> /\ IsWhitespace(Head(s)) THEN TrimStart(Tail(s)) ELSE s

RECURSIVE TrimEnd(_)
TrimEnd(s) ==
  IF s # <<>> /\ IsWhitespace(s[Len(s)])
  THEN TrimEnd(SubSeq(s, 1, Len(s) - 1))
  ELSE s

\* str::trim
Trim(s) == TrimEnd(TrimStart(s))

\* The longest prefix of s without whitespace.
RECURSIVE TakeToken(_)
TakeToken(s) ==
  IF s = <<>> \/ IsWhitespace(Head(s)) THEN <<>>
  ELSE <<Head(s)>> \o TakeToken(Tail(s))

\* str::split_whitespace().collect(): the maximal whitespace-free substrings.
RECURSIVE SplitWhitespace(_)
SplitWhitespace(s) ==
  LET t == TrimStart(s) IN
  IF t = <<>> THEN <<>>
  ELSE LET tok == TakeToken(t)
       IN <<tok>> \o SplitWhitespace(SubSeq(t, Len(tok) + 1, Len(t)))

\* String::pop
Pop(s) == IF s = <<>> THEN s ELSE SubSeq(s, 1, Len(s) - 1)

I32Max == 2147483647
I32Min == -I32Max - 1

\* The digits of s accumulated as a non-positive number, as the parser does it
\* (checked_mul, checked_sub): ok is FALSE once the value leaves the range of i32.
RECURSIVE DigitsValue(_, _)
DigitsValue(s, acc) ==
  IF s = <<>> THEN [ok |-> TRUE, val |-> acc]
  ELSE LET d == CharCode(Head(s)) - 48
           fits == \/ -acc < I32Max \div 10
                   \/ -acc = I32Max \div 10 /\ d <= (I32Max % 10) + 1
       IN IF fits THEN DigitsValue(Tail(s), acc * 10 - d)
          ELSE [ok |-> FALSE, val |-> 0]

\* str::parse::<i32>(): an optional sign, then one or more decimal digits, the
\* value within the range of i32.  [ok |-> FALSE, val |-> 0] is Err.
ParseI32(tok) ==
  LET signed == tok # <<>> /\ Head(tok) \in {"+", "-"}
      negative == signed /\ Head(tok) = "-"
      digits == IF signed THEN Tail(tok) ELSE tok
      wellFormed == digits # <<>> /\ \A i \in 1..Len(digits) : IsDigit(digits[i])
      neg == IF wellFormed THEN DigitsValue(digits, 0) ELSE [ok |-> FALSE, val |-> 0]
  IN IF neg.ok /\ (negative \/ neg.val >= -I32Max)
     THEN [ok |-> TRUE, val |-> IF negative THEN neg.val ELSE -neg.val]
     ELSE [ok |-> FALSE, val |-> 0]

\* Whether x + y overflows i32.
AddOverflows(x, y) ==
  \/ y > 0 /\ x > I32Max - y
  \/ y < 0 /\ x < I32Min - y

\* x + y in a release build (overflow-checks off): two's complement wrap.
WrappingAdd(x, y) ==
  IF y > 0 /\ x > I32Max - y THEN (x - I32Max - 1) + (y - I32Max - 1)
  ELSE IF y < 0 /\ x < I32Min - y THEN (x + I32Max + 1) + (y + I32Max + 1)
  ELSE x + y

\* Whether x - y overflows i32.
SubOverflows(x, y) ==
  \/ y < 0 /\ x > I32Max + y
  \/ y > 0 /\ x < I32Min + y

\* x - y in a release build (overflow-checks off): two's complement wrap.
WrappingSub(x, y) ==
  IF y < 0 /\ x > I32Max + y THEN (x - I32Max - 1) - (y + I32Max + 1)
  ELSE IF y > 0 /\ x < I32Min + y THEN (x + I32Max + 1) - (y - I32Max - 1)
  ELSE x - y

Min2(x, y) == IF x <= y THEN x ELSE y

(***************************************************************************)
(* levenshtein_distance: one row of costs, updated in place.  costs[k + 1] *)
(* here is costs[k] of the source.  The row has b.len() + 1 cells, b.len() *)
(* being the length of b in bytes; the loops run over the chars of a and   *)
(* of b.                                                                   *)
(***************************************************************************)
\* The inner loop, from index j (0-based, as in the source) to the end of b.
RECURSIVE LevInner(_, _, _, _, _)
LevInner(ca, b, j, costs, corner) ==
  IF j >= Len(b) THEN costs
  ELSE LET cb == b[j + 1]
           upper == costs[j + 2]
           t == Min2(Min2(corner, upper), costs[j + 1]) + 1
           costs2 == [costs EXCEPT ![j + 2] = IF ca = cb THEN corner ELSE t]
       IN LevInner(ca, b, j + 1, costs2, upper)

\* The outer loop, from index i (0-based) to the end of a.
RECURSIVE LevOuter(_, _, _, _)
LevOuter(a, b, i, costs) ==
  IF i >= Len(a) THEN costs
  ELSE LET costs1 == [costs EXCEPT ![1] = i + 1]
       IN LevOuter(a, b, i + 1, LevInner(a[i + 1], b, 0, costs1, i))

levenshtein_distance(a, b) ==
  LevOuter(a, b, 0, [k \in 1..(ByteLen(b) + 1) |-> k - 1])[ByteLen(b) + 1]

(***************************************************************************)
(* Vec helpers.                                                            *)
(***************************************************************************)
\* The orders in which a HashMap or HashSet holding the keys S may be iterated.
IterationOrders(S) ==
  {p \in [1..Cardinality(S) -> S] : \A i, j \in 1..Cardinality(S) : p[i] = p[j] => i = j}

\* The strings of S in ascending String order (sort / sort_by on distinct keys).
RECURSIVE SortStrings(_)
SortStrings(S) ==
  IF S = {} THEN <<>>
  ELSE LET m == CHOOSE x \in S : \A y \in S \ {x} : StrLess(x, y)
       IN <<m>> \o SortStrings(S \ {m})

\* x inserted into a sequence sorted by dist, after every element whose dist is
\* not greater: what a stable sort does with the next element.
RECURSIVE InsertByDist(_, _)
InsertByDist(sorted, x) ==
  IF sorted = <<>> THEN <<x>>
  ELSE IF x.dist < sorted[Len(sorted)].dist
       THEN InsertByDist(SubSeq(sorted, 1, Len(sorted) - 1), x) \o <<sorted[Len(sorted)]>>
       ELSE sorted \o <<x>>

\* sort_by_key(|r| dist): a stable sort.
RECURSIVE SortByDist(_)
SortByDist(s) ==
  IF s = <<>> THEN <<>>
  ELSE InsertByDist(SortByDist(SubSeq(s, 1, Len(s) - 1)), s[Len(s)])

None == <<>>
Some(x) == <<x>>

(***************************************************************************)
(* Data: struct Relogio, struct Historico, the messages pushed to the log. *)
(***************************************************************************)
Relogio(codigo, quantidade) == [codigo |-> codigo, quantidade |-> quantidade]

\* timestamp: the calendar day Local::now() reported.
Historico(codigo, quantidade, operacao, timestamp) ==
  [codigo |-> codigo, quantidade |-> quantidade, operacao |-> operacao,
   timestamp |-> timestamp]

\* A message of the log: what it says, and the code and quantity it quotes.
Msg(tipo, codigo, qtd) == [tipo |-> tipo, codigo |-> codigo, qtd |-> qtd]

MsgSimples(tipo) == Msg(tipo, <<>>, 0)

PushMsg(a, m) == [a EXCEPT !.mensagens = Append(@, m)]

VisHeight == 5


(***************************************************************************)
(* Persistence: estoque.json.  estado is "ausente" (no file), "valido" (a  *)
(* Persist record) or "corrompido" (not a Persist record).                 *)
(***************************************************************************)
ArquivoAusente == [estado |-> "ausente", relogios |-> <<>>, historico |-> <<>>]

ArquivoCorrompido == [estado |-> "corrompido", relogios |-> <<>>, historico |-> <<>>]

\* What File::create and write_all may do: both succeed ("ok"), create fails
\* ("create_falhou": the file is left as it was), or write_all fails after create
\* truncated the file ("write_falhou").
ResultadosEscrita == {"ok", "create_falhou", "write_falhou"}

load_from_file(arq) ==
  IF arq.estado = "valido"
  THEN [relogios |-> arq.relogios, historico |-> arq.historico]
  ELSE [relogios |-> <<>>, historico |-> <<>>]

\* save_to_file writing the Items and keeping the history the file had.
save_to_file_sem_historico(arq, relogios, historico, resultado) ==
  CASE resultado = "ok" ->
         [estado |-> "valido", relogios |-> relogios, historico |-> arq.historico]
    [] resultado = "create_falhou" -> arq
    [] resultado = "write_falhou" -> ArquivoCorrompido

save_to_file(arq, relogios, historico, resultado) ==
  CASE resultado = "ok" ->
         [estado |-> "valido", relogios |-> relogios, historico |-> historico]
    [] resultado = "create_falhou" -> arq
    [] resultado = "write_falhou" -> ArquivoCorrompido

(***************************************************************************)
(* impl HistoricoTab                                                       *)
(***************************************************************************)
TabNext(tab) ==
  CASE tab = "Todos" -> "Compras"
    [] tab = "Compras" -> "Vendas"
    [] tab = "Vendas" -> "Aquisicoes"
    [] tab = "Aquisicoes" -> "Todos"

TabPrev(tab) ==
  CASE tab = "Todos" -> "Aquisicoes"
    [] tab = "Compras" -> "Todos"
    [] tab = "Vendas" -> "Compras"
    [] tab = "Aquisicoes" -> "Vendas"

(***************************************************************************)
(* impl App.  relogios is the HashMap, a function from codigo to           *)
(* quantidade (the key of an entry is the codigo of its Relogio).          *)
(***************************************************************************)
\* HashMap::insert
MapInsert(m, k, v) == [c \in (DOMAIN m) \cup {k} |-> IF c = k THEN v ELSE m[c]]

\* relogios.values().cloned().collect(), sorted by codigo.
ListaOrdenada(relogios) ==
  LET cods == SortStrings(DOMAIN relogios)
  IN [i \in 1..Len(cods) |-> Relogio(cods[i], relogios[cods[i]])]

\* if pos >= len && !list.is_empty() { pos = len - 1 }
Reclamp(pos, len) == IF pos >= len /\ len # 0 THEN len - 1 ELSE pos

atualiza_estoques_list(a) ==
  LET lista == ListaOrdenada(a.relogios)
  IN [a EXCEPT !.estoques_list = lista,
               !.estoques_offset = Reclamp(@, Len(lista)),
               !.estoques_selected = Reclamp(@, Len(lista))]

atualiza_cadastro_list(a) ==
  LET lista == ListaOrdenada(a.relogios)
  IN [a EXCEPT !.cadastro_list = lista,
               !.cadastro_offset = Reclamp(@, Len(lista)),
               !.cadastro_selected = Reclamp(@, Len(lista))]

\* ordem: the order in which relogios.values() yields the entries.
busca_relogios(a, query, ordem) ==
  SortByDist([i \in 1..Len(ordem) |->
                [codigo |-> ordem[i], quantidade |-> a.relogios[ordem[i]],
                 dist |-> levenshtein_distance(ordem[i], query)]])

\* atualizar_busca_results putting the cursor of the results back at the top.
atualizar_busca_results_reinicia(a, ordem) ==
  [a EXCEPT !.buscar_results = busca_relogios(a, a.input, ordem),
            !.buscar_offset = 0, !.buscar_selected = 0]

atualizar_busca_results(a, ordem) ==
  LET results == busca_relogios(a, a.input, ordem)
  IN [a EXCEPT !.buscar_results = results,
               !.buscar_offset = Reclamp(@, Len(results)),
               !.buscar_selected = Reclamp(@, Len(results))]

atualizar_historico_search_results(a) ==
  LET query == Trim(a.input)
      cods == a.historico_codigos_unicos
      res == SortByDist([i \in 1..Len(cods) |->
                           [codigo |-> cods[i],
                            dist |-> levenshtein_distance(cods[i], query)]])
  IN [a EXCEPT !.historico_search_results = res,
               !.historico_search_selected =
                  IF res # <<>> THEN (IF @ >= Len(res) THEN Len(res) - 1 ELSE @)
                  ELSE 0]

\* cadastrar_relogio adding to the quantity of a code already in the store.
cadastrar_relogio_soma(a, codigo, qtd, ts) ==
  LET nova == IF codigo \in DOMAIN a.relogios THEN a.relogios[codigo] + qtd ELSE qtd
      a1 == [a EXCEPT !.relogios = MapInsert(@, codigo, nova),
                      !.historico = Append(@, Historico(codigo, qtd, "CADASTRO", ts))]
      a2 == PushMsg(a1, Msg("cadastrado", codigo, qtd))
  IN atualiza_cadastro_list(atualiza_estoques_list(a2))

\* cadastrar_relogio assigning the history instead of pushing to it.
cadastrar_relogio_reinicia(a, codigo, qtd, ts) ==
  LET a1 == [a EXCEPT !.relogios = MapInsert(@, codigo, qtd),
                      !.historico = <<Historico(codigo, qtd, "CADASTRO", ts)>>]
      a2 == PushMsg(a1, Msg("cadastrado", codigo, qtd))
  IN atualiza_cadastro_list(atualiza_estoques_list(a2))

cadastrar_relogio(a, codigo, qtd, ts) ==
  LET a1 == [a EXCEPT !.relogios = MapInsert(@, codigo, qtd),
                      !.historico = Append(@, Historico(codigo, qtd, "CADASTRO", ts))]
      a2 == PushMsg(a1, Msg("cadastrado", codigo, qtd))
  IN atualiza_cadastro_list(atualiza_estoques_list(a2))

\* Whether r.quantidade -= qtd overflows i32.
vender_overflow(a, codigo, qtd) ==
  /\ codigo \in DOMAIN a.relogios
  /\ a.relogios[codigo] >= qtd
  /\ SubOverflows(a.relogios[codigo], qtd)

\* vender_relogio without the test of the stock.
vender_relogio_sem_guarda(a, codigo, qtd, ts) ==
  LET a1 ==
        IF codigo \in DOMAIN a.relogios
        THEN PushMsg([a EXCEPT !.relogios[codigo] = WrappingSub(@, qtd),
                               !.historico =
                                  Append(@, Historico(codigo, qtd, "VENDA", ts))],
                     Msg("vendido", codigo, qtd))
        ELSE PushMsg(a, MsgSimples("nao_encontrado"))
  IN atualiza_cadastro_list(atualiza_estoques_list(a1))

\* vender_relogio removing the Relogio whose stock is sold out.
vender_relogio_remove(a, codigo, qtd, ts) ==
  LET a1 ==
        IF codigo \in DOMAIN a.relogios
        THEN IF a.relogios[codigo] >= qtd
             THEN PushMsg([a EXCEPT !.relogios =
                                       IF @[codigo] = qtd
                                       THEN [c \in (DOMAIN @) \ {codigo} |-> @[c]]
                                       ELSE [@ EXCEPT ![codigo] = WrappingSub(@, qtd)],
                                    !.historico =
                                       Append(@, Historico(codigo, qtd, "VENDA", ts))],
                          Msg("vendido", codigo, qtd))
             ELSE PushMsg(a, MsgSimples("sem_estoque"))
        ELSE PushMsg(a, MsgSimples("nao_encontrado"))
  IN atualiza_cadastro_list(atualiza_estoques_list(a1))

\* vender_relogio pushing the VENDA entry of a code that is not in the store.
vender_relogio_registra(a, codigo, qtd, ts) ==
  LET a1 ==
        IF codigo \in DOMAIN a.relogios
        THEN IF a.relogios[codigo] >= qtd
             THEN PushMsg([a EXCEPT !.relogios[codigo] = WrappingSub(@, qtd),
                                    !.historico =
                                       Append(@, Historico(codigo, qtd, "VENDA", ts))],
                          Msg("vendido", codigo, qtd))
             ELSE PushMsg(a, MsgSimples("sem_estoque"))
        ELSE PushMsg([a EXCEPT !.historico =
                                  Append(@, Historico(codigo, qtd, "VENDA", ts))],
                     MsgSimples("nao_encontrado"))
  IN atualiza_cadastro_list(atualiza_estoques_list(a1))

vender_relogio(a, codigo, qtd, ts) ==
  LET a1 ==
        IF codigo \in DOMAIN a.relogios
        THEN IF a.relogios[codigo] >= qtd
             THEN PushMsg([a EXCEPT !.relogios[codigo] = WrappingSub(@, qtd),
                                    !.historico =
                                       Append(@, Historico(codigo, qtd, "VENDA", ts))],
                          Msg("vendido", codigo, qtd))
             ELSE PushMsg(a, MsgSimples("sem_estoque"))
        ELSE PushMsg(a, MsgSimples("nao_encontrado"))
  IN atualiza_cadastro_list(atualiza_estoques_list(a1))

\* Whether r.quantidade += qtd overflows i32.
comprar_overflow(a, codigo, qtd) ==
  /\ codigo \in DOMAIN a.relogios
  /\ AddOverflows(a.relogios[codigo], qtd)

\* comprar_relogio pushing the COMPRA entry only when it creates the Relogio.
comprar_relogio_sem_historico(a, codigo, qtd, ts) ==
  LET a1 == IF codigo \in DOMAIN a.relogios
            THEN [a EXCEPT !.relogios[codigo] = WrappingAdd(@, qtd)]
            ELSE [a EXCEPT !.relogios = MapInsert(@, codigo, qtd),
                           !.historico =
                              Append(@, Historico(codigo, qtd, "COMPRA", ts))]
      a3 == PushMsg(a1, Msg("adicionado", codigo, qtd))
  IN atualiza_cadastro_list(atualiza_estoques_list(a3))

\* comprar_relogio without the refresh of the stock list.
comprar_relogio_sem_atualizar(a, codigo, qtd, ts) ==
  LET a1 == IF codigo \in DOMAIN a.relogios
            THEN [a EXCEPT !.relogios[codigo] = WrappingAdd(@, qtd)]
            ELSE [a EXCEPT !.relogios = MapInsert(@, codigo, qtd)]
      a2 == [a1 EXCEPT !.historico = Append(@, Historico(codigo, qtd, "COMPRA", ts))]
  IN atualiza_cadastro_list(PushMsg(a2, Msg("adicionado", codigo, qtd)))

comprar_relogio(a, codigo, qtd, ts) ==
  LET a1 == IF codigo \in DOMAIN a.relogios
            THEN [a EXCEPT !.relogios[codigo] = WrappingAdd(@, qtd)]
            ELSE [a EXCEPT !.relogios = MapInsert(@, codigo, qtd)]
      a2 == [a1 EXCEPT !.historico = Append(@, Historico(codigo, qtd, "COMPRA", ts))]
      a3 == PushMsg(a2, Msg("adicionado", codigo, qtd))
  IN atualiza_cadastro_list(atualiza_estoques_list(a3))

\* The tab filter with the Compras tab also taking the CADASTRO entries.
TabAceita_compras_e_cadastros(tab, h) ==
  CASE tab = "Todos" -> TRUE
    [] tab = "Compras" -> h.operacao \in {"COMPRA", "CADASTRO"}
    [] tab = "Vendas" -> h.operacao = "VENDA"
    [] tab = "Aquisicoes" -> h.operacao = "CADASTRO"

TabAceita(tab, h) ==
  CASE tab = "Todos" -> TRUE
    [] tab = "Compras" -> h.operacao = "COMPRA"
    [] tab = "Vendas" -> h.operacao = "VENDA"
    [] tab = "Aquisicoes" -> h.operacao = "CADASTRO"

get_historico_atual_vec(a) ==
  LET base == IF a.historico_filtrado # None THEN a.historico_filtrado[1]
              ELSE a.historico
      Keep(h) == TabAceita(a.historico_tab, h)
  IN SelectSeq(base, Keep)

get_historico_por_codigo(a, codigo) ==
  LET Keep(h) == h.codigo = codigo
  IN SelectSeq(a.historico, Keep)

(***************************************************************************)
(* Timestamps.  A Historico keeps the calendar day Local::now() reported,  *)
(* as its number in the calendar below; format_timestamp is the String the *)
(* source stores, "%Y-%m-%d %H:%M:%S".                                     *)
(***************************************************************************)
DigitChar(d) ==
  CASE d = 0 -> "0" [] d = 1 -> "1" [] d = 2 -> "2" [] d = 3 -> "3" [] d = 4 -> "4"
    [] d = 5 -> "5" [] d = 6 -> "6" [] d = 7 -> "7" [] d = 8 -> "8" [] d = 9 -> "9"

\* {:02}
Digitos2(n) == <<DigitChar((n \div 10) % 10), DigitChar(n % 10)>>

\* {:04}
Digitos4(n) == Digitos2(n \div 100) \o Digitos2(n % 100)

\* The calendar: day 1 is 2024-12-27, day 5 is 2024-12-31, day 6 is 2025-01-01.
DataDoDia(n) ==
  IF n <= 5 THEN [ano |-> 2024, mes |-> 12, dia |-> 26 + n]
  ELSE [ano |-> 2025, mes |-> 1, dia |-> n - 5]

\* Local::now().format("%Y-%m-%d %H:%M:%S").to_string(), at noon of day n.
format_timestamp(n) ==
  LET d == DataDoDia(n)
  IN Digitos4(d.ano) \o <<"-">> \o Digitos2(d.mes) \o <<"-">> \o Digitos2(d.dia)
     \o <<" ", "1", "2", ":", "0", "0", ":", "0", "0">>

\* str::find(' '): the 0-based position of the first space, as an Option.
FindSpace(s) ==
  IF \E i \in 1..Len(s) : s[i] = " "
  THEN Some((CHOOSE i \in 1..Len(s) : s[i] = " " /\ \A j \in 1..(i - 1) : s[j] # " ") - 1)
  ELSE None

\* str::split('-').collect()
RECURSIVE SplitHifen(_)
SplitHifen(s) ==
  IF \E i \in 1..Len(s) : s[i] = "-"
  THEN LET i == CHOOSE k \in 1..Len(s) : s[k] = "-" /\ \A j \in 1..(k - 1) : s[j] # "-"
       IN <<SubSeq(s, 1, i - 1)>> \o SplitHifen(SubSeq(s, i + 1, Len(s)))
  ELSE <<s>>

formata_data_ddmm(data) ==
  LET parts == SplitHifen(data)
  IN IF Len(parts) = 3 THEN parts[3] \o <<"/">> \o parts[2] ELSE data

MaxBuckets == 7

\* The loop over self.historico, from entry i on: mapa is the HashMap from the
\* date to <<sales, purchases>>.
RECURSIVE AgrupaDesde(_, _, _)
AgrupaDesde(hist, i, mapa) ==
  IF i > Len(hist) THEN mapa
  ELSE LET h == hist[i]
           ts == format_timestamp(h.timestamp)
           pos == FindSpace(ts)
       IN IF pos # None
          THEN LET data_str == SubSeq(ts, 1, pos[1])
                   entry == IF data_str \in DOMAIN mapa THEN mapa[data_str] ELSE <<0, 0>>
                   novo == CASE h.operacao = "VENDA" -> <<entry[1] + 1, entry[2]>>
                             [] h.operacao = "COMPRA" -> <<entry[1], entry[2] + 1>>
                             [] OTHER -> entry
               IN AgrupaDesde(hist, i + 1, MapInsert(mapa, data_str, novo))
          ELSE AgrupaDesde(hist, i + 1, mapa)

\* agrupamento_por_dia keeping the first seven dates instead of the last seven.
agrupamento_por_dia_primeiros(a) ==
  LET mapa == AgrupaDesde(a.historico, 1, <<>>)
      vet == SortStrings(DOMAIN mapa)
      fim == IF Len(vet) > MaxBuckets THEN MaxBuckets ELSE Len(vet)
  IN [i \in 1..fim |->
        [data |-> formata_data_ddmm(vet[i]),
         vendas |-> mapa[vet[i]][1], compras |-> mapa[vet[i]][2]]]

\* The buckets as (date label, sales, purchases).
agrupamento_por_dia(a) ==
  LET mapa == AgrupaDesde(a.historico, 1, <<>>)
      vet == SortStrings(DOMAIN mapa)
      len == Len(vet)
      start == IF len > MaxBuckets THEN len - MaxBuckets ELSE 0
  IN [i \in 1..(len - start) |->
        [data |-> formata_data_ddmm(vet[start + i]),
         vendas |-> mapa[vet[start + i]][1], compras |-> mapa[vet[start + i]][2]]]

\* entra_modo_insercao leaving the history filter as it was.
entra_modo_insercao_mantem_filtro(a, modo) ==
  [a EXCEPT !.modo = modo, !.input = <<>>, !.editing = TRUE]

entra_modo_insercao(a, modo) ==
  [a EXCEPT !.modo = modo, !.input = <<>>, !.editing = TRUE,
            !.historico_filtrado = None]

\* sai_modo_insercao going back to Estoques with the editing flag as it was.
sai_modo_insercao_sem_editing(a) ==
  [a EXCEPT !.modo = "Estoques", !.input = <<>>, !.historico_filtrado = None]

sai_modo_insercao(a) ==
  [a EXCEPT !.modo = "Estoques", !.input = <<>>, !.editing = FALSE,
            !.historico_filtrado = None]

\* The shared shape of the *_select_up methods and of KeyCode::Up in Estoques:
\* <<offset, selected>> after the move.
SelectUp(offset, selected) ==
  IF selected > 0
  THEN <<IF selected - 1 < offset THEN selected - 1 ELSE offset, selected - 1>>
  ELSE <<offset, selected>>

\* A select_down that moves the selection and never the offset.
SelectDown_sem_rolagem(offset, selected, total) ==
  IF total # 0 /\ selected + 1 < total
  THEN <<offset, selected + 1>>
  ELSE <<offset, selected>>

\* The shared shape of the *_select_down methods and of KeyCode::Down in
\* Estoques, over a list of length total.
SelectDown(offset, selected, total) ==
  IF total # 0 /\ selected + 1 < total
  THEN <<IF selected + 1 >= offset + VisHeight THEN selected + 1 - VisHeight + 1
         ELSE offset,
         selected + 1>>
  ELSE <<offset, selected>>

historico_select_up(a) ==
  LET c == SelectUp(a.historico_offset, a.historico_selected)
  IN [a EXCEPT !.historico_offset = c[1], !.historico_selected = c[2]]

historico_select_down(a) ==
  LET c == SelectDown(a.historico_offset, a.historico_selected,
                      Len(get_historico_atual_vec(a)))
  IN [a EXCEPT !.historico_offset = c[1], !.historico_selected = c[2]]

\* historico_tab_next changing the tab and leaving the cursor where it was.
historico_tab_next_sem_reinicio(a) ==
  [a EXCEPT !.historico_tab = TabNext(@)]

historico_tab_next(a) ==
  [a EXCEPT !.historico_tab = TabNext(@), !.historico_selected = 0,
            !.historico_offset = 0]

historico_tab_prev(a) ==
  [a EXCEPT !.historico_tab = TabPrev(@), !.historico_selected = 0,
            !.historico_offset = 0]

cadastro_select_up(a) ==
  LET c == SelectUp(a.cadastro_offset, a.cadastro_selected)
  IN [a EXCEPT !.cadastro_offset = c[1], !.cadastro_selected = c[2]]

cadastro_select_down(a) ==
  LET c == SelectDown(a.cadastro_offset, a.cadastro_selected, Len(a.cadastro_list))
  IN [a EXCEPT !.cadastro_offset = c[1], !.cadastro_selected = c[2]]

buscar_select_up(a) ==
  LET c == SelectUp(a.buscar_offset, a.buscar_selected)
  IN [a EXCEPT !.buscar_offset = c[1], !.buscar_selected = c[2]]

buscar_select_down(a) ==
  LET c == SelectDown(a.buscar_offset, a.buscar_selected, Len(a.buscar_results))
  IN [a EXCEPT !.buscar_offset = c[1], !.buscar_selected = c[2]]

estoques_select_up(a) ==
  LET c == SelectUp(a.estoques_offset, a.estoques_selected)
  IN [a EXCEPT !.estoques_offset = c[1], !.estoques_selected = c[2]]

\* KeyCode::Down in Estoques has no is_empty test: selected + 1 < len implies it.
estoques_select_down(a) ==
  LET c == SelectDown(a.estoques_offset, a.estoques_selected, Len(a.estoques_list))
  IN [a EXCEPT !.estoques_offset = c[1], !.estoques_selected = c[2]]

historico_search_up(a) ==
  IF a.historico_search_selected > 0
  THEN [a EXCEPT !.historico_search_selected = @ - 1]
  ELSE a

historico_search_down(a) ==
  IF a.historico_search_results # <<>>
     /\ a.historico_search_selected + 1 < Len(a.historico_search_results)
  THEN [a EXCEPT !.historico_search_selected = @ + 1]
  ELSE a

\* selecionar_registro that pushes its message and selects nothing.
selecionar_registro_sem_escolha(a, codigo) ==
  PushMsg(a, Msg("selecionado", codigo, 0))

\* selecionar_registro choosing the text of the buffer instead of the code of
\* the row.
selecionar_registro_do_buffer(a, codigo) ==
  PushMsg([a EXCEPT !.chosen_relogio = Some(a.input), !.chosen_operation = None],
          Msg("selecionado", codigo, 0))

selecionar_registro(a, codigo) ==
  PushMsg([a EXCEPT !.chosen_relogio = Some(codigo), !.chosen_operation = None],
          Msg("selecionado", codigo, 0))

\* cancelar_selecao that pushes its message and keeps the selection.
cancelar_selecao_sem_limpar(a) ==
  PushMsg(a, MsgSimples("selecao_cancelada"))

cancelar_selecao(a) ==
  PushMsg([a EXCEPT !.chosen_relogio = None, !.chosen_operation = None],
          MsgSimples("selecao_cancelada"))

\* escolher_operacao pre-filling the buffer with the code and no space.
escolher_operacao_sem_espaco(a, op) ==
  IF a.chosen_relogio # None
  THEN LET cod == a.chosen_relogio[1]
           a1 == PushMsg([a EXCEPT !.chosen_operation = Some(op)],
                         Msg(IF op = "A" THEN "operacao_A" ELSE "operacao_V", cod, 0))
       IN [a1 EXCEPT !.modo = IF op = "A" THEN "Compra" ELSE "Venda",
                     !.editing = TRUE, !.input = cod]
  ELSE a

escolher_operacao(a, op) ==
  IF a.chosen_relogio # None
  THEN LET cod == a.chosen_relogio[1]
           a1 == PushMsg([a EXCEPT !.chosen_operation = Some(op)],
                         Msg(IF op = "A" THEN "operacao_A" ELSE "operacao_V", cod, 0))
       IN IF op = "A"
          THEN [a1 EXCEPT !.modo = "Compra", !.editing = TRUE,
                          !.input = cod \o <<" ">>]
          ELSE IF op = "V"
          THEN [a1 EXCEPT !.modo = "Venda", !.editing = TRUE,
                          !.input = cod \o <<" ">>]
          ELSE a1
  ELSE a

\* filtrar_historico that resets the cursor and never sets the filter.
filtrar_historico_sem_filtro(a, codigo) ==
  [PushMsg(a, MsgSimples("filtro_removido"))
     EXCEPT !.historico_filtrado = None, !.historico_offset = 0,
            !.historico_selected = 0]

\* filtrar_historico that sets the filter and leaves the cursor where it was.
filtrar_historico_sem_reinicio(a, codigo) ==
  IF codigo = <<>>
  THEN PushMsg([a EXCEPT !.historico_filtrado = None], MsgSimples("filtro_removido"))
  ELSE LET hist == get_historico_por_codigo(a, codigo)
       IN IF hist = <<>>
          THEN [PushMsg(a, MsgSimples("nenhum_historico"))
                  EXCEPT !.historico_filtrado = None]
          ELSE PushMsg([a EXCEPT !.historico_filtrado = Some(hist)],
                       Msg("historico_filtrado", codigo, 0))

filtrar_historico(a, codigo) ==
  LET a1 ==
        IF codigo = <<>>
        THEN PushMsg([a EXCEPT !.historico_filtrado = None],
                     MsgSimples("filtro_removido"))
        ELSE LET hist == get_historico_por_codigo(a, codigo)
             IN IF hist = <<>>
                THEN [PushMsg(a, MsgSimples("nenhum_historico"))
                        EXCEPT !.historico_filtrado = None]
                ELSE PushMsg([a EXCEPT !.historico_filtrado = Some(hist)],
                             Msg("historico_filtrado", codigo, 0))
  IN [a1 EXCEPT !.historico_offset = 0, !.historico_selected = 0]

\* App::new, given the content of estoque.json.
AppNew(arq) ==
  LET loaded == load_from_file(arq)
      cods == {loaded.historico[i].codigo : i \in 1..Len(loaded.historico)}
      a == [relogios |-> loaded.relogios,
            historico |-> loaded.historico,
            modo |-> "Estoques",
            input |-> <<>>,
            mensagens |-> <<MsgSimples("bem_vindo")>>,
            historico_filtrado |-> None,
            editing |-> FALSE,
            estoques_list |-> <<>>,
            estoques_offset |-> 0,
            estoques_selected |-> 0,
            historico_offset |-> 0,
            historico_selected |-> 0,
            historico_tab |-> "Todos",
            cadastro_list |-> <<>>,
            cadastro_offset |-> 0,
            cadastro_selected |-> 0,
            buscar_results |-> <<>>,
            buscar_offset |-> 0,
            buscar_selected |-> 0,
            chosen_relogio |-> None,
            chosen_operation |-> None,
            historico_codigos_unicos |-> SortStrings(cods),
            historico_search_results |-> <<>>,
            historico_search_selected |-> 0]
  IN atualiza_cadastro_list(atualiza_estoques_list(a))


(***************************************************************************)
(* The state: the App of main(), the file estoque.json, and whether the    *)
(* loop of main() is running ("rodando"), was left by `break`              *)
(* ("encerrado") or was ended by a panic ("panico").  ambiente is what     *)
(* surrounds the program and never changes: the characters the operator    *)
(* types into a buffer (chars), the longest buffer typed (max_input), the  *)
(* longest history the session builds (max_hist), the calendar days        *)
(* Local::now() reports during the session (dias), the order in which the  *)
(* HashMap yields its entries (hash: "qualquer", any order, or "ordenado", *)
(* ascending by key) and the outcomes a write of the file may have         *)
(* (escritas).                                                             *)
(***************************************************************************)
VARIABLES app, arquivo, estado, ambiente

vars == <<app, arquivo, estado, ambiente>>

\* overflow-checks of the build: on (a debug build panics on i32 overflow) or
\* off (a release build wraps).
OverflowChecks == {TRUE, FALSE}

\* Every key in use, short buffers, a disk that works.
AmbienteCompleto ==
  [chars |-> {"1", " "}, max_input |-> MaxInput, max_hist |-> MaxHist,
   dias |-> Dias, hash |-> "qualquer", escritas |-> {"ok"}]

\* The forms in use (register, buy, sell), negative quantities typed, a disk
\* that works.
AmbienteLoja ==
  [chars |-> {"1", "-", " "}, max_input |-> MaxInputLoja, max_hist |-> MaxHist,
   dias |-> Dias, hash |-> "qualquer", escritas |-> {"ok"}]

\* estoque.json as an earlier session leaves it after registering the code "1"
\* with the largest quantity the form accepts.
ArquivoNoLimite ==
  [estado |-> "valido",
   relogios |-> (<<"1">> :> I32Max),
   historico |-> <<Historico(<<"1">>, I32Max, "CADASTRO", 1)>>]

\* The code made of n characters "1".
Uns(n) == [i \in 1..n |-> "1"]

\* estoque.json as an earlier session leaves it after registering or buying
\* five codes, one unit each: a stock list one row short of scrolling.
ArquivoCincoItens ==
  [estado |-> "valido",
   relogios |-> [c \in {Uns(n) : n \in 1..VisHeight} |-> 1],
   historico |-> [n \in 1..VisHeight |->
                    Historico(Uns(n), 1,
                              IF n % 2 = 1 THEN "CADASTRO" ELSE "COMPRA", 1)]]

\* The lists in use: a sixth code registered, the views visited, the cursors
\* moved; a HashMap that yields its entries in ascending order.
AmbienteCursor ==
  [chars |-> {"2", " "}, max_input |-> MaxInput, max_hist |-> MaxHistCursor,
   dias |-> Dias, hash |-> "ordenado", escritas |-> {"ok"}]

\* estoque.json as earlier sessions leave it after a week of trade in the code
\* "1": one entry on each of the days 1..7.
ArquivoSeteDias ==
  [estado |-> "valido",
   relogios |-> (<<"1">> :> 2),
   historico |-> <<Historico(<<"1">>, 1, "CADASTRO", 1),
                   Historico(<<"1">>, 1, "COMPRA", 2),
                   Historico(<<"1">>, 1, "VENDA", 3),
                   Historico(<<"1">>, 1, "COMPRA", 4),
                   Historico(<<"1">>, 1, "VENDA", 5),
                   Historico(<<"1">>, 1, "CADASTRO", 6),
                   Historico(<<"1">>, 1, "COMPRA", 7)>>]

\* The chart in use: the code bought and sold on the last day of the file and
\* on the two days after it, the chart opened.
AmbienteGrafico ==
  [chars |-> {"1"}, max_input |-> MaxInput, max_hist |-> MaxHistGrafico,
   dias |-> (MaxDiaGrafico - 2)..MaxDiaGrafico, hash |-> "ordenado",
   escritas |-> {"ok"}]

\* estoque.json as an earlier session leaves it after registering three codes
\* written with "a" and the accented "e".
ArquivoAcentuado ==
  [estado |-> "valido",
   relogios |-> [c \in {<<"a">>, <<"e_agudo">>, <<"a", "e_agudo">>} |-> 1],
   historico |-> <<Historico(<<"a">>, 1, "CADASTRO", 1),
                   Historico(<<"e_agudo">>, 1, "CADASTRO", 1),
                   Historico(<<"a", "e_agudo">>, 1, "CADASTRO", 1)>>]

\* The search view in use, queries typed with "a" and the accented "e".
AmbienteBusca ==
  [chars |-> {"a", "e_agudo"}, max_input |-> MaxInputBusca, max_hist |-> MaxHistCursor,
   dias |-> Dias, hash |-> "qualquer", escritas |-> {"ok"}]

\* The history search in use: codes registered, queries typed, the suggestions
\* walked, the filter confirmed.
AmbienteHistorico ==
  [chars |-> {"1", " "}, max_input |-> MaxInput, max_hist |-> MaxHistCursor,
   dias |-> Dias, hash |-> "ordenado", escritas |-> {"ok"}]

\* estoque.json as an earlier session leaves it after registering the code "x".
ArquivoX ==
  [estado |-> "valido",
   relogios |-> (<<"x">> :> 1),
   historico |-> <<Historico(<<"x">>, 1, "CADASTRO", 1)>>]

\* Every key in use, the quit key's character typed into the buffers.
AmbienteSair ==
  [chars |-> {"x", "1"}, max_input |-> MaxInput, max_hist |-> MaxHist + 1,
   dias |-> Dias, hash |-> "qualquer", escritas |-> {"ok"}]

\* The forms in use on a disk whose writes of estoque.json have the outcomes
\* escritas: they succeed, fail to create the file, or fail after creating it.
AmbienteDisco(escritas) ==
  [chars |-> {"1", " "}, max_input |-> MaxInputLoja, max_hist |-> MaxHist,
   dias |-> Dias, hash |-> "qualquer", escritas |-> escritas]

\* The three lists in use: codes registered one after another from the empty
\* store, the stock list and the search results walked in between.
AmbienteListas ==
  [chars |-> {"1", " "}, max_input |-> MaxInputLoja, max_hist |-> MaxHist + 1,
   dias |-> Dias, hash |-> "qualquer", escritas |-> {"ok"}]

\* estoque.json as an earlier session leaves it after registering the codes "1"
\* and "11".
ArquivoDoisItens ==
  [estado |-> "valido",
   relogios |-> [c \in {Uns(1), Uns(2)} |-> 1],
   historico |-> <<Historico(Uns(1), 1, "CADASTRO", 1),
                   Historico(Uns(2), 1, "CADASTRO", 1)>>]

\* The views in use on a store of two codes, one more entry of history made.
AmbienteDoisItens ==
  [chars |-> {"1", " "}, max_input |-> MaxInput, max_hist |-> MaxHist + 1,
   dias |-> Dias, hash |-> "qualquer", escritas |-> {"ok"}]

\* main() up to the loop, with estoque.json as arq.
InitEm(amb, arq) ==
  /\ ambiente = amb
  /\ arquivo = arq
  /\ app = AppNew(arquivo)
  /\ estado = "rodando"

Init == InitEm(AmbienteCompleto, ArquivoAusente)

InitLoja == InitEm(AmbienteLoja, ArquivoAusente)

InitLimite == InitEm(AmbienteLoja, ArquivoNoLimite)

InitCursor == InitEm(AmbienteCursor, ArquivoCincoItens)

InitGrafico == InitEm(AmbienteGrafico, ArquivoSeteDias)

\* A later session (three codes in the file) or a first one (no file).
InitBusca ==
  \/ InitEm(AmbienteBusca, ArquivoAcentuado)
  \/ InitEm(AmbienteBusca, ArquivoAusente)

\* A first session (no file) or a later one (five codes in the file).
InitHistorico ==
  \/ InitEm(AmbienteHistorico, ArquivoAusente)
  \/ InitEm(AmbienteHistorico, ArquivoCincoItens)

InitSair == InitEm(AmbienteSair, ArquivoX)

\* A disk that works, a disk that fails in one way, or one that does either.
InitListas == InitEm(AmbienteListas, ArquivoAusente)

InitDoisItens == InitEm(AmbienteDoisItens, ArquivoDoisItens)

InitDisco ==
  \E escritas \in (SUBSET ResultadosEscrita) \ {{}} :
    InitEm(AmbienteDisco(escritas), ArquivoAusente)

\* self.relogios.values(): the orders in which the HashMap may yield its entries.
OrdensDoMapa(S) ==
  IF ambiente.hash = "ordenado" THEN {SortStrings(S)} ELSE IterationOrders(S)

\* A key event starts a new part of the message log.
NovoEvento(a) == [a EXCEPT !.mensagens = <<>>]

Editando(modo) == estado = "rodando" /\ app.editing /\ app.modo = modo

NaoEditando == estado = "rodando" /\ ~app.editing

\* app.input.trim().split_whitespace().collect()
Parts(a) == SplitWhitespace(Trim(a.input))

\* The buffer holds two tokens and the second parses as i32.
Parsable(a) == Len(Parts(a)) = 2 /\ ParseI32(Parts(a)[2]).ok

\* The panic of an overflowing i32 operation ends the process.
Panico == estado' = "panico" /\ UNCHANGED <<app, arquivo, ambiente>>

(***************************************************************************)
(* if app.editing: Modo::Cadastro                                          *)
(***************************************************************************)
CadastroEnter ==
  /\ Editando("Cadastro")
  /\ \E ts \in ambiente.dias, escrita \in ambiente.escritas :
       LET a0 == NovoEvento(app)
           parts == Parts(a0)
           a1 == IF Len(parts) = 2
                 THEN IF ParseI32(parts[2]).ok
                      THEN cadastrar_relogio(a0, parts[1], ParseI32(parts[2]).val, ts)
                      ELSE PushMsg(a0, MsgSimples("quantidade_invalida"))
                 ELSE a0
       IN /\ app' = sai_modo_insercao(a1)
          /\ arquivo' = IF Parsable(a0)
                        THEN save_to_file(arquivo, a1.relogios, a1.historico, escrita)
                        ELSE arquivo
  /\ Len(app'.historico) <= ambiente.max_hist
  /\ UNCHANGED <<estado, ambiente>>

CadastroEsc ==
  /\ Editando("Cadastro")
  /\ app' = sai_modo_insercao(NovoEvento(app))
  /\ UNCHANGED <<arquivo, estado, ambiente>>

CadastroBackspace ==
  /\ Editando("Cadastro")
  /\ app' = [NovoEvento(app) EXCEPT !.input = Pop(@)]
  /\ UNCHANGED <<arquivo, estado, ambiente>>

CadastroChar ==
  /\ Editando("Cadastro")
  /\ Len(app.input) < ambiente.max_input
  /\ \E ch \in ambiente.chars : app' = [NovoEvento(app) EXCEPT !.input = Append(@, ch)]
  /\ UNCHANGED <<arquivo, estado, ambiente>>


(***************************************************************************)
(* if app.editing: Modo::Buscar                                            *)
(***************************************************************************)
BuscarEnter ==
  /\ Editando("Buscar")
  /\ app' = [NovoEvento(app) EXCEPT !.editing = FALSE]
  /\ UNCHANGED <<arquivo, estado, ambiente>>

BuscarEsc ==
  /\ Editando("Buscar")
  /\ app' = sai_modo_insercao(NovoEvento(app))
  /\ UNCHANGED <<arquivo, estado, ambiente>>

BuscarBackspace ==
  /\ Editando("Buscar")
  /\ \E ordem \in OrdensDoMapa(DOMAIN app.relogios) :
       app' = atualizar_busca_results([NovoEvento(app) EXCEPT !.input = Pop(@)], ordem)
  /\ UNCHANGED <<arquivo, estado, ambiente>>

BuscarChar ==
  /\ Editando("Buscar")
  /\ Len(app.input) < ambiente.max_input
  /\ \E ch \in ambiente.chars, ordem \in OrdensDoMapa(DOMAIN app.relogios) :
       app' = atualizar_busca_results([NovoEvento(app) EXCEPT !.input = Append(@, ch)],
                                      ordem)
  /\ UNCHANGED <<arquivo, estado, ambiente>>

(***************************************************************************)
(* if app.editing: Modo::Historico                                         *)
(***************************************************************************)
HistoricoEnter ==
  /\ Editando("Historico")
  /\ LET a0 == NovoEvento(app)
         res == a0.historico_search_results
     IN IF res # <<>> /\ a0.historico_search_selected >= Len(res)
        THEN Panico  \* index out of bounds
        ELSE /\ app' = [(IF res # <<>>
                         THEN filtrar_historico(
                                a0, res[a0.historico_search_selected + 1].codigo)
                         ELSE filtrar_historico(a0, Trim(a0.input)))
                          EXCEPT !.editing = FALSE, !.input = <<>>]
             /\ UNCHANGED <<arquivo, estado, ambiente>>

HistoricoEsc ==
  /\ Editando("Historico")
  /\ app' = filtrar_historico([NovoEvento(app) EXCEPT !.input = <<>>,
                                                      !.editing = FALSE], <<>>)
  /\ UNCHANGED <<arquivo, estado, ambiente>>

HistoricoBackspace ==
  /\ Editando("Historico")
  /\ app' = atualizar_historico_search_results(
              [NovoEvento(app) EXCEPT !.input = Pop(@)])
  /\ UNCHANGED <<arquivo, estado, ambiente>>

HistoricoChar ==
  /\ Editando("Historico")
  /\ Len(app.input) < ambiente.max_input
  /\ \E ch \in ambiente.chars :
       app' = atualizar_historico_search_results(
                [NovoEvento(app) EXCEPT !.input = Append(@, ch)])
  /\ UNCHANGED <<arquivo, estado, ambiente>>

HistoricoSearchUp ==
  /\ Editando("Historico")
  /\ app' = historico_search_up(NovoEvento(app))
  /\ UNCHANGED <<arquivo, estado, ambiente>>

HistoricoSearchDown ==
  /\ Editando("Historico")
  /\ app' = historico_search_down(NovoEvento(app))
  /\ UNCHANGED <<arquivo, estado, ambiente>>

(***************************************************************************)
(* if app.editing: Modo::Compra, Modo::Venda                               *)
(***************************************************************************)
\* The end of the Enter and Esc arms of both forms.
\* The end of a form that goes back to Estoques and keeps the operation chosen.
FechaFormulario_mantem_operacao(a) ==
  [a EXCEPT !.modo = "Estoques", !.editing = FALSE, !.input = <<>>,
            !.chosen_relogio = None]

FechaFormulario(a) ==
  [a EXCEPT !.modo = "Estoques", !.editing = FALSE, !.input = <<>>,
            !.chosen_relogio = None, !.chosen_operation = None]

CompraEnter ==
  /\ Editando("Compra")
  /\ \E ts \in ambiente.dias, escrita \in ambiente.escritas, checks \in OverflowChecks :
       LET a0 == NovoEvento(app)
           parts == Parts(a0)
           a1 == IF Len(parts) = 2
                 THEN IF ParseI32(parts[2]).ok
                      THEN comprar_relogio(a0, parts[1], ParseI32(parts[2]).val, ts)
                      ELSE PushMsg(a0, MsgSimples("quantidade_invalida"))
                 ELSE PushMsg(a0, MsgSimples("formato_incorreto"))
       IN IF Parsable(a0) /\ checks
             /\ comprar_overflow(a0, parts[1], ParseI32(parts[2]).val)
          THEN Panico
          ELSE /\ app' = FechaFormulario(a1)
               /\ arquivo' = IF Parsable(a0)
                             THEN save_to_file(arquivo, a1.relogios, a1.historico,
                                               escrita)
                             ELSE arquivo
               /\ UNCHANGED <<estado, ambiente>>
  /\ Len(app'.historico) <= ambiente.max_hist

\* The Esc arm of the buy form making the buy the buffer describes before it
\* closes the form.
CompraEsc_que_compra ==
  /\ Editando("Compra")
  /\ \E ts \in ambiente.dias :
       LET a0 == NovoEvento(app)
       IN app' = FechaFormulario(
                   IF Parsable(a0)
                      /\ ~comprar_overflow(a0, Parts(a0)[1], ParseI32(Parts(a0)[2]).val)
                   THEN comprar_relogio(a0, Parts(a0)[1], ParseI32(Parts(a0)[2]).val, ts)
                   ELSE a0)
  /\ Len(app'.historico) <= ambiente.max_hist
  /\ UNCHANGED <<arquivo, estado, ambiente>>

CompraEsc ==
  /\ Editando("Compra")
  /\ app' = FechaFormulario(NovoEvento(app))
  /\ UNCHANGED <<arquivo, estado, ambiente>>

CompraBackspace ==
  /\ Editando("Compra")
  /\ app' = [NovoEvento(app) EXCEPT !.input = Pop(@)]
  /\ UNCHANGED <<arquivo, estado, ambiente>>

CompraChar ==
  /\ Editando("Compra")
  /\ Len(app.input) < ambiente.max_input
  /\ \E ch \in ambiente.chars : app' = [NovoEvento(app) EXCEPT !.input = Append(@, ch)]
  /\ UNCHANGED <<arquivo, estado, ambiente>>

VendaEnter ==
  /\ Editando("Venda")
  /\ \E ts \in ambiente.dias, escrita \in ambiente.escritas, checks \in OverflowChecks :
       LET a0 == NovoEvento(app)
           parts == Parts(a0)
           a1 == IF Len(parts) = 2
                 THEN IF ParseI32(parts[2]).ok
                      THEN vender_relogio(a0, parts[1], ParseI32(parts[2]).val, ts)
                      ELSE PushMsg(a0, MsgSimples("quantidade_invalida"))
                 ELSE PushMsg(a0, MsgSimples("formato_incorreto"))
       IN IF Parsable(a0) /\ checks
             /\ vender_overflow(a0, parts[1], ParseI32(parts[2]).val)
          THEN Panico
          ELSE /\ app' = FechaFormulario(a1)
               /\ arquivo' = IF Parsable(a0)
                             THEN save_to_file(arquivo, a1.relogios, a1.historico,
                                               escrita)
                             ELSE arquivo
               /\ UNCHANGED <<estado, ambiente>>
  /\ Len(app'.historico) <= ambiente.max_hist

VendaEsc ==
  /\ Editando("Venda")
  /\ app' = FechaFormulario(NovoEvento(app))
  /\ UNCHANGED <<arquivo, estado, ambiente>>

VendaBackspace ==
  /\ Editando("Venda")
  /\ app' = [NovoEvento(app) EXCEPT !.input = Pop(@)]
  /\ UNCHANGED <<arquivo, estado, ambiente>>

VendaChar ==
  /\ Editando("Venda")
  /\ Len(app.input) < ambiente.max_input
  /\ \E ch \in ambiente.chars : app' = [NovoEvento(app) EXCEPT !.input = Append(@, ch)]
  /\ UNCHANGED <<arquivo, estado, ambiente>>

(***************************************************************************)
(* else (not editing): by key                                              *)
(***************************************************************************)
\* KeyCode::Char('x') breaking the loop whether or not the view is editing.
KeyX_tambem_editando ==
  /\ estado = "rodando"
  /\ estado' = "encerrado"
  /\ UNCHANGED <<app, arquivo, ambiente>>

KeyX ==
  /\ NaoEditando
  /\ estado' = "encerrado"
  /\ UNCHANGED <<app, arquivo, ambiente>>

\* KeyCode::Esc, not editing, clearing everything and staying in the view.
KeyEsc_sem_modo ==
  /\ NaoEditando
  /\ app' = [cancelar_selecao(NovoEvento(app))
               EXCEPT !.historico_filtrado = None, !.input = <<>>, !.editing = FALSE]
  /\ UNCHANGED <<arquivo, estado, ambiente>>

KeyEsc ==
  /\ NaoEditando
  /\ app' = [cancelar_selecao(NovoEvento(app))
               EXCEPT !.modo = "Estoques", !.historico_filtrado = None,
                      !.input = <<>>, !.editing = FALSE]
  /\ UNCHANGED <<arquivo, estado, ambiente>>

KeyC ==
  /\ NaoEditando
  /\ app' = entra_modo_insercao(NovoEvento(app), "Cadastro")
  /\ UNCHANGED <<arquivo, estado, ambiente>>

KeyB ==
  /\ NaoEditando
  /\ \E ordem \in OrdensDoMapa(DOMAIN app.relogios) :
       app' = atualizar_busca_results(entra_modo_insercao(NovoEvento(app), "Buscar"),
                                      ordem)
  /\ UNCHANGED <<arquivo, estado, ambiente>>

\* KeyCode::Char('h') entering the history view without resetting its cursor.
KeyH_sem_reinicio ==
  /\ NaoEditando
  /\ app' = IF app.modo # "Historico"
            THEN [PushMsg(NovoEvento(app), MsgSimples("ajuda_historico"))
                    EXCEPT !.modo = "Historico", !.editing = FALSE, !.input = <<>>]
            ELSE NovoEvento(app)
  /\ UNCHANGED <<arquivo, estado, ambiente>>

KeyH ==
  /\ NaoEditando
  /\ app' = IF app.modo # "Historico"
            THEN [PushMsg(NovoEvento(app), MsgSimples("ajuda_historico"))
                    EXCEPT !.modo = "Historico", !.editing = FALSE, !.input = <<>>,
                           !.historico_offset = 0, !.historico_selected = 0]
            ELSE NovoEvento(app)
  /\ UNCHANGED <<arquivo, estado, ambiente>>

KeyG ==
  /\ NaoEditando
  /\ app' = [NovoEvento(app) EXCEPT !.modo = "Grafico"]
  /\ UNCHANGED <<arquivo, estado, ambiente>>

KeyLeft ==
  /\ NaoEditando
  /\ app' = IF app.modo = "Historico" THEN historico_tab_prev(NovoEvento(app))
            ELSE NovoEvento(app)
  /\ UNCHANGED <<arquivo, estado, ambiente>>

KeyRight ==
  /\ NaoEditando
  /\ app' = IF app.modo = "Historico" THEN historico_tab_next(NovoEvento(app))
            ELSE NovoEvento(app)
  /\ UNCHANGED <<arquivo, estado, ambiente>>

KeyUp ==
  /\ NaoEditando
  /\ app' = CASE app.modo = "Estoques" -> estoques_select_up(NovoEvento(app))
              [] app.modo = "Historico" -> historico_select_up(NovoEvento(app))
              [] app.modo = "Cadastro" -> cadastro_select_up(NovoEvento(app))
              [] app.modo = "Buscar" -> buscar_select_up(NovoEvento(app))
              [] OTHER -> NovoEvento(app)
  /\ UNCHANGED <<arquivo, estado, ambiente>>

KeyDown ==
  /\ NaoEditando
  /\ app' = CASE app.modo = "Estoques" -> estoques_select_down(NovoEvento(app))
              [] app.modo = "Historico" -> historico_select_down(NovoEvento(app))
              [] app.modo = "Cadastro" -> cadastro_select_down(NovoEvento(app))
              [] app.modo = "Buscar" -> buscar_select_down(NovoEvento(app))
              [] OTHER -> NovoEvento(app)
  /\ UNCHANGED <<arquivo, estado, ambiente>>

KeyEnter ==
  /\ NaoEditando
  /\ LET a0 == NovoEvento(app) IN
     CASE app.modo = "Cadastro" ->
            \E ts \in ambiente.dias, escrita \in ambiente.escritas :
              /\ app' = IF Parsable(a0)
                        THEN [cadastrar_relogio(a0, Parts(a0)[1],
                                                ParseI32(Parts(a0)[2]).val, ts)
                                EXCEPT !.input = <<>>]
                        ELSE a0
              /\ arquivo' = IF Parsable(a0)
                            THEN save_to_file(arquivo, app'.relogios, app'.historico,
                                              escrita)
                            ELSE arquivo
              /\ UNCHANGED <<estado, ambiente>>
       [] app.modo = "Buscar" ->
            IF a0.buscar_results # <<>> /\ a0.buscar_selected >= Len(a0.buscar_results)
            THEN Panico  \* index out of bounds
            ELSE /\ app' = IF a0.buscar_results # <<>>
                           THEN selecionar_registro(
                                  a0, a0.buscar_results[a0.buscar_selected + 1].codigo)
                           ELSE a0
                 /\ UNCHANGED <<arquivo, estado, ambiente>>
       [] app.modo = "Estoques" ->
            /\ app' = IF a0.estoques_selected < Len(a0.estoques_list)
                      THEN selecionar_registro(
                             a0, a0.estoques_list[a0.estoques_selected + 1].codigo)
                      ELSE a0
            /\ UNCHANGED <<arquivo, estado, ambiente>>
       [] OTHER -> app' = a0 /\ UNCHANGED <<arquivo, estado, ambiente>>
  /\ Len(app'.historico) <= ambiente.max_hist

KeyA ==
  /\ NaoEditando
  /\ app' = IF app.chosen_relogio # None /\ app.modo \in {"Estoques", "Buscar"}
            THEN escolher_operacao(NovoEvento(app), "A")
            ELSE NovoEvento(app)
  /\ UNCHANGED <<arquivo, estado, ambiente>>

KeyV ==
  /\ NaoEditando
  /\ app' = IF app.chosen_relogio # None /\ app.modo \in {"Estoques", "Buscar"}
            THEN escolher_operacao(NovoEvento(app), "V")
            ELSE NovoEvento(app)
  /\ UNCHANGED <<arquivo, estado, ambiente>>

KeyP ==
  /\ NaoEditando
  /\ app' = IF app.modo = "Historico" /\ ~app.editing
            THEN atualizar_historico_search_results(
                   [NovoEvento(app) EXCEPT !.editing = TRUE, !.input = <<>>])
            ELSE NovoEvento(app)
  /\ UNCHANGED <<arquivo, estado, ambiente>>

\* Any key no arm of the match names (`_ => {}`): nothing but a new event.
OutraTecla ==
  /\ estado = "rodando"
  /\ app' = NovoEvento(app)
  /\ UNCHANGED <<arquivo, estado, ambiente>>

Next ==
  \/ CadastroEnter \/ CadastroEsc \/ CadastroBackspace \/ CadastroChar
  \/ BuscarEnter \/ BuscarEsc \/ BuscarBackspace \/ BuscarChar
  \/ HistoricoEnter \/ HistoricoEsc \/ HistoricoBackspace \/ HistoricoChar
  \/ HistoricoSearchUp \/ HistoricoSearchDown
  \/ CompraEnter \/ CompraEsc \/ CompraBackspace \/ CompraChar
  \/ VendaEnter \/ VendaEsc \/ VendaBackspace \/ VendaChar
  \/ KeyX \/ KeyEsc \/ KeyC \/ KeyB \/ KeyH \/ KeyG \/ KeyLeft \/ KeyRight
  \/ KeyUp \/ KeyDown \/ KeyEnter \/ KeyA \/ KeyV \/ KeyP
  \/ OutraTecla

Spec == Init /\ [][Next]_vars

\* Every key again, the operator also typing the character of the quit key.
SpecSair == InitSair /\ [][Next]_vars

\* The operator goes from view to view on a store loaded with two codes:
\* registers, searches, filters the history, opens the chart, moves over the
\* rows, selects, buys and sells.
NextVistas ==
  \/ KeyC \/ CadastroChar \/ CadastroEnter \/ CadastroEsc
  \/ KeyB \/ BuscarEnter \/ BuscarEsc
  \/ KeyH \/ KeyP \/ HistoricoChar \/ HistoricoEnter \/ HistoricoEsc
  \/ KeyG \/ KeyEsc \/ KeyUp \/ KeyDown \/ KeyEnter \/ KeyA \/ KeyV
  \/ CompraChar \/ CompraEnter \/ CompraEsc
  \/ VendaChar \/ VendaEnter \/ VendaEsc

SpecVistas == InitDoisItens /\ [][NextVistas]_vars

\* The operator uses the stock list and the three forms only.
NextLoja ==
  \/ CadastroEnter \/ CadastroEsc \/ CadastroBackspace \/ CadastroChar
  \/ CompraEnter \/ CompraEsc \/ CompraBackspace \/ CompraChar
  \/ VendaEnter \/ VendaEsc \/ VendaBackspace \/ VendaChar
  \/ KeyX \/ KeyEsc \/ KeyC \/ KeyUp \/ KeyDown \/ KeyEnter \/ KeyA \/ KeyV
  \/ OutraTecla

SpecLoja == InitLoja /\ [][NextLoja]_vars

\* The forms again, on a store loaded with a quantity at the limit of i32.
SpecLimite == InitLimite /\ [][NextLoja]_vars

\* The forms again, on a disk whose writes may fail.
SpecDisco == InitDisco /\ [][NextLoja]_vars

\* The operator registers, visits the lists and moves their cursors.
NextCursor ==
  \/ KeyC \/ CadastroChar \/ CadastroEnter \/ CadastroEsc
  \/ KeyB \/ BuscarEnter \/ BuscarEsc
  \/ KeyH \/ KeyLeft \/ KeyRight \/ KeyP \/ HistoricoEnter \/ HistoricoEsc
  \/ KeyUp \/ KeyDown \/ KeyEsc

SpecCursor == InitCursor /\ [][NextCursor]_vars

\* The operator buys and sells the selected code and opens the chart.
NextGrafico ==
  \/ KeyEnter \/ KeyA \/ KeyV
  \/ CompraChar \/ CompraEnter \/ CompraEsc
  \/ VendaChar \/ VendaEnter \/ VendaEsc
  \/ KeyG \/ KeyEsc

SpecGrafico == InitGrafico /\ [][NextGrafico]_vars

\* The operator searches, moves over the results, selects one, opens and
\* closes the buy and sell forms, and looks at the history.
NextBusca ==
  \/ KeyB \/ BuscarChar \/ BuscarBackspace \/ BuscarEnter \/ BuscarEsc
  \/ KeyUp \/ KeyDown \/ KeyEnter \/ KeyEsc
  \/ KeyA \/ KeyV \/ CompraEnter \/ CompraEsc \/ VendaEnter \/ VendaEsc
  \/ KeyH

SpecBusca == InitBusca /\ [][NextBusca]_vars

\* The operator registers, opens the history and searches it.
NextHistorico ==
  \/ KeyC \/ CadastroChar \/ CadastroEnter
  \/ KeyH \/ KeyP \/ HistoricoChar \/ HistoricoBackspace
  \/ HistoricoSearchUp \/ HistoricoSearchDown \/ HistoricoEnter \/ HistoricoEsc
  \/ KeyEsc

SpecHistorico == InitHistorico /\ [][NextHistorico]_vars

\* The operator registers, opens the history, moves over its rows, searches it
\* and confirms or cancels the search.
NextFiltro ==
  \/ KeyC \/ CadastroChar \/ CadastroEnter
  \/ KeyH \/ KeyUp \/ KeyDown \/ KeyP \/ HistoricoChar \/ HistoricoBackspace
  \/ HistoricoSearchUp \/ HistoricoSearchDown \/ HistoricoEnter \/ HistoricoEsc
  \/ KeyEsc

SpecFiltro == InitHistorico /\ [][NextFiltro]_vars

\* The operator registers codes and walks the stock list and the search
\* results.
NextListas ==
  \/ KeyC \/ CadastroChar \/ CadastroBackspace \/ CadastroEnter \/ CadastroEsc
  \/ KeyB \/ BuscarChar \/ BuscarBackspace \/ BuscarEnter \/ BuscarEsc
  \/ KeyUp \/ KeyDown \/ KeyEsc

SpecListas == InitListas /\ [][NextListas]_vars

(***************************************************************************)
(* The calls to the store a step makes.  The confirm handlers pass the     *)
(* first token of the buffer as the code and the parsed second token as    *)
(* the quantity; the definitions below read them in the state before the   *)
(* step.                                                                   *)
(***************************************************************************)
CodigoDigitado == Parts(app)[1]

QtdDigitada == ParseI32(Parts(app)[2]).val

\* The step is a confirm that calls cadastrar_relogio (from either call site).
ChamaCadastrar ==
  (CadastroEnter \/ (KeyEnter /\ app.modo = "Cadastro")) /\ Parsable(app)

\* The step is a confirm that calls comprar_relogio.
ChamaComprar == CompraEnter /\ Parsable(app)

\* The step is a confirm that calls vender_relogio.
ChamaVender == VendaEnter /\ Parsable(app)

\* The code is in the store and the quantity on hand is at least the one sold.
VendaAceita ==
  /\ CodigoDigitado \in DOMAIN app.relogios
  /\ app.relogios[CodigoDigitado] >= QtdDigitada

\* The call returned: the process did not abort in it.
Retornou == estado' = "rodando"

\* The step appends one entry of kind op with the code and quantity of the call.
Acrescenta(op) ==
  \E ts \in ambiente.dias :
    app'.historico = Append(app.historico,
                            Historico(CodigoDigitado, QtdDigitada, op, ts))

\* The store after the step is the one before it with the code of the call at
\* quantity q (the code added if it was not there), every other Item as it was.
ItemPassaA(q) ==
  app'.relogios = [c \in (DOMAIN app.relogios) \cup {CodigoDigitado} |->
                     IF c = CodigoDigitado THEN q ELSE app.relogios[c]]

IsPrefix(s, t) == Len(s) <= Len(t) /\ SubSeq(t, 1, Len(s)) = s

(***************************************************************************)
(* Claims.                                                                 *)
(***************************************************************************)

\* C1: in every reachable state every Item's quantity is >= 0, whatever parsable
\* quantities the REGISTER, BUY_FORM and SELL_FORM confirms are given.
C1_QuantidadeNaoNegativa ==
  \A c \in DOMAIN app.relogios : app.relogios[c] >= 0

\* C2: from an empty store, the history grows by exactly one entry, of the kind,
\* code and quantity of the call, in every register, every buy and every sell
\* that is not rejected, and in no other step (a rejected sell included): its
\* length is the number of accepted calls.
C2_Passo ==
  IF ChamaCadastrar /\ Retornou THEN Acrescenta("CADASTRO")
  ELSE IF ChamaComprar /\ Retornou THEN Acrescenta("COMPRA")
  ELSE IF ChamaVender /\ Retornou /\ VendaAceita THEN Acrescenta("VENDA")
  ELSE app'.historico = app.historico

\* C2: the history starts empty and every step is a C2_Passo.
C2_HistoricoContaChamadas == app.historico = <<>> /\ [][C2_Passo]_vars

\* C2 witness: a register followed by a buy of another code, both in the history.
C2_CadastroECompra ==
  /\ Len(app.historico) = 2
  /\ app.historico[1].operacao = "CADASTRO"
  /\ app.historico[2].operacao = "COMPRA"
  /\ app.historico[2].codigo # app.historico[1].codigo

\* C3: a sell of an unknown code, or of more than the quantity on hand, leaves
\* every Item and the whole history as they were and pushes exactly one message,
\* the rejection, to the log.
C3_VendaRejeitada ==
  [][(ChamaVender /\ ~VendaAceita) =>
       /\ Retornou
       /\ app'.relogios = app.relogios
       /\ app'.historico = app.historico
       /\ app'.mensagens =
            IF CodigoDigitado \in DOMAIN app.relogios
            THEN <<MsgSimples("sem_estoque")>>
            ELSE <<MsgSimples("nao_encontrado")>>]_vars

\* C3 witness: the state after a sell rejected for lack of stock.
C3_SemEstoque ==
  /\ app.mensagens = <<MsgSimples("sem_estoque")>>
  /\ app.modo = "Estoques"
  /\ app.relogios # <<>>

\* C4: a sell of a code in the store, of no more than the quantity on hand,
\* returns with that Item's quantity lowered by exactly the quantity sold (to 0,
\* the Item kept, when all of it is sold), every other Item as it was, and one
\* VENDA entry of the call appended.  (The difference is the integers'; an i32
\* cannot hold it when the subtraction overflows.)
C4_VendaAceita ==
  [][(ChamaVender /\ VendaAceita) =>
       /\ Retornou
       /\ ~SubOverflows(app.relogios[CodigoDigitado], QtdDigitada)
       /\ ItemPassaA(app.relogios[CodigoDigitado] - QtdDigitada)
       /\ Acrescenta("VENDA")]_vars

\* C5: a buy never rejects: it returns with the quantity of a code in the store
\* raised by exactly the quantity bought, or with a new Item of exactly that
\* quantity, no other Item changed and one COMPRA entry of the call appended.
\* (The sum is the integers'; an i32 cannot hold it when the addition overflows.)
C5_Compra ==
  [][ChamaComprar =>
       /\ Retornou
       /\ IF CodigoDigitado \in DOMAIN app.relogios
          THEN /\ ~AddOverflows(app.relogios[CodigoDigitado], QtdDigitada)
               /\ ItemPassaA(app.relogios[CodigoDigitado] + QtdDigitada)
          ELSE ItemPassaA(QtdDigitada)
       /\ Acrescenta("COMPRA")]_vars

\* C6: a register sets the Item of the code to exactly the quantity given,
\* whether or not the code was in the store, changes no other Item and appends
\* one CADASTRO entry of the call.
C6_Cadastro ==
  [][ChamaCadastrar =>
       /\ Retornou
       /\ ItemPassaA(QtdDigitada)
       /\ Acrescenta("CADASTRO")]_vars

\* C6 witness: a code registered twice with different quantities holds the second.
C6_Recadastrado ==
  /\ Len(app.historico) = 2
  /\ app.historico[1].operacao = "CADASTRO"
  /\ app.historico[2].operacao = "CADASTRO"
  /\ app.historico[1].codigo = app.historico[2].codigo
  /\ app.historico[1].quantidade # app.historico[2].quantidade
  /\ app.relogios[app.historico[2].codigo] = app.historico[2].quantidade

\* C7: the history is append-only: in every step the history before it is a
\* prefix of the history after it.
C7_HistoricoSoCresce == [][IsPrefix(app.historico, app'.historico)]_vars

\* C7 witness: the history view filtered by a code, after the history grew to
\* two entries.
C7_HistoricoVisto ==
  /\ Len(app.historico) = 2
  /\ app.modo = "Historico"
  /\ app.historico_filtrado # None

\* C8: no Item is ever deleted: every code in the store before a step is in the
\* store after it, an Item whose quantity reached 0 included.
C8_ItensNuncaRemovidos ==
  [][\A c \in DOMAIN app.relogios : c \in DOMAIN app'.relogios]_vars

\* C8 witness: an Item sold out, still in the store with quantity 0.
C8_ItemZerado ==
  /\ app.historico # <<>>
  /\ app.historico[Len(app.historico)].operacao = "VENDA"
  /\ app.historico[Len(app.historico)].codigo \in DOMAIN app.relogios
  /\ app.relogios[app.historico[Len(app.historico)].codigo] = 0

\* C9: every entry of the history has a quantity > 0 and a kind among CADASTRO,
\* COMPRA and VENDA (REGISTER, PURCHASE, SALE).
C9_EntradasPositivas ==
  \A i \in 1..Len(app.historico) :
    /\ app.historico[i].quantidade > 0
    /\ app.historico[i].operacao \in {"CADASTRO", "COMPRA", "VENDA"}

\* C10: from an empty store, every code of an entry of the history is the code
\* of an Item in the store.
C10_CodigosDoHistoricoNoEstoque ==
  \A i \in 1..Len(app.historico) : app.historico[i].codigo \in DOMAIN app.relogios

\* C10 witness: a history with entries of two codes.
C10_DoisCodigos ==
  /\ Len(app.historico) = 2
  /\ app.historico[1].codigo # app.historico[2].codigo
  /\ app.historico[2].operacao = "CADASTRO"

\* C11: each list cursor (stock list, registration list, search results,
\* history rows) over a backing list of N rows and a viewport of 5 rows has
\* selected < N when N > 0 and offset <= selected < offset + 5, after any
\* sequence of moves, refreshes and registers.
CursorOk(offset, selected, total) ==
  /\ total > 0 => selected < total
  /\ offset <= selected
  /\ selected < offset + VisHeight

\* C11: the four cursors are within their lists and viewports in every state.
C11_Cursores ==
  /\ CursorOk(app.estoques_offset, app.estoques_selected, Len(app.estoques_list))
  /\ CursorOk(app.cadastro_offset, app.cadastro_selected, Len(app.cadastro_list))
  /\ CursorOk(app.buscar_offset, app.buscar_selected, Len(app.buscar_results))
  /\ CursorOk(app.historico_offset, app.historico_selected,
              Len(get_historico_atual_vec(app)))

\* C11 witness: six rows in each list, the stock list, the search results and
\* the history rows all scrolled down to the last row.
C11_TresListasRoladas ==
  /\ Len(app.estoques_list) = VisHeight + 1
  /\ app.estoques_offset = 1 /\ app.estoques_selected = VisHeight
  /\ app.buscar_offset = 1 /\ app.buscar_selected = VisHeight
  /\ app.historico_offset = 1 /\ app.historico_selected = VisHeight

\* C12: over the history, or the history filtered by a code, the Todos tab
\* shows the whole sequence and the Compras, Vendas and Aquisicoes tabs show
\* subsequences of it, in its order, that partition it: every entry is in Todos
\* and in exactly one of the other three.
BaseDoHistorico ==
  IF app.historico_filtrado # None THEN app.historico_filtrado[1] ELSE app.historico

LinhasDaAba(tab) == get_historico_atual_vec([app EXCEPT !.historico_tab = tab])

RECURSIVE IsSubseq(_, _)
IsSubseq(s, t) ==
  IF s = <<>> THEN TRUE
  ELSE IF t = <<>> THEN FALSE
  ELSE IF Head(s) = Head(t) THEN IsSubseq(Tail(s), Tail(t))
  ELSE IsSubseq(s, Tail(t))

Ocorrencias(h, s) == Cardinality({i \in 1..Len(s) : s[i] = h})

\* C12: Todos is the base; the other three tabs are subsequences that partition it.
C12_AbasParticionam ==
  /\ LinhasDaAba("Todos") = BaseDoHistorico
  /\ \A tab \in {"Compras", "Vendas", "Aquisicoes"} :
       IsSubseq(LinhasDaAba(tab), BaseDoHistorico)
  /\ \A i \in 1..Len(BaseDoHistorico) :
       LET h == BaseDoHistorico[i] IN
         /\ Cardinality({tab \in {"Compras", "Vendas", "Aquisicoes"} :
                           Ocorrencias(h, LinhasDaAba(tab)) > 0}) = 1
         /\ Ocorrencias(h, BaseDoHistorico) =
              Ocorrencias(h, LinhasDaAba("Compras"))
              + Ocorrencias(h, LinhasDaAba("Vendas"))
              + Ocorrencias(h, LinhasDaAba("Aquisicoes"))

\* C12 witness: the history view on the Compras tab, filtered by a code whose
\* entries are a CADASTRO and a COMPRA.
C12_FiltradoDuasAbas ==
  /\ app.modo = "Historico"
  /\ app.historico_tab = "Compras"
  /\ app.historico_filtrado # None
  /\ Len(BaseDoHistorico) = 2
  /\ BaseDoHistorico[1].operacao = "CADASTRO"
  /\ BaseDoHistorico[2].operacao = "COMPRA"

\* C13: the daily buckets of the whole history (whatever the code filter) are
\* at most 7, one per distinct date, the latest distinct dates of the history
\* in strictly ascending order of the date; the sales and purchases of a bucket
\* are the numbers of VENDA and COMPRA entries of its date, CADASTRO entries
\* counting for neither.
DatasDoHistorico == {DataDoDia(app.historico[i].timestamp) : i \in 1..Len(app.historico)}

DataAntes(d, e) ==
  \/ d.ano < e.ano
  \/ d.ano = e.ano /\ d.mes < e.mes
  \/ d.ano = e.ano /\ d.mes = e.mes /\ d.dia < e.dia

UltimasDatas ==
  {d \in DatasDoHistorico :
     Cardinality({e \in DatasDoHistorico : DataAntes(d, e)}) < 7}

EntradasDe(d, op) ==
  Cardinality({i \in 1..Len(app.historico) :
                 /\ DataDoDia(app.historico[i].timestamp) = d
                 /\ app.historico[i].operacao = op})

\* C13: the buckets are the latest 7 distinct dates, ascending, with their counts.
C13_BaldesDiarios ==
  LET r == agrupamento_por_dia(app) IN
    /\ Len(r) <= 7
    /\ Len(r) = Cardinality(UltimasDatas)
    /\ \A i \in 1..Len(r) :
         \E d \in UltimasDatas :
           /\ Cardinality({e \in UltimasDatas : DataAntes(e, d)}) = i - 1
           /\ r[i].data = Digitos2(d.dia) \o <<"/">> \o Digitos2(d.mes)
           /\ r[i].vendas = EntradasDe(d, "VENDA")
           /\ r[i].compras = EntradasDe(d, "COMPRA")

\* C13 witness: the chart open over a history of more than 7 distinct dates
\* whose latest date has a purchase and a sale.
C13_MaisDeSeteDatas ==
  /\ app.modo = "Grafico"
  /\ Cardinality(DatasDoHistorico) > MaxBuckets
  /\ app.historico_filtrado = None
  /\ \E d \in UltimasDatas :
       /\ \A e \in DatasDoHistorico : ~DataAntes(d, e)
       /\ EntradasDe(d, "VENDA") = 1
       /\ EntradasDe(d, "COMPRA") = 1

\* C14: the distance computed between a code and a query is the minimum number
\* of single-character inserts, deletes and substitutions that turn one into
\* the other; in particular it is 0 between equal strings and the length of
\* the other string when one of them is empty.  Stated of the distances the
\* search view holds for the query in its buffer.
RECURSIVE DistanciaDeEdicao(_, _)
DistanciaDeEdicao(a, b) ==
  IF a = <<>> THEN Len(b)
  ELSE IF b = <<>> THEN Len(a)
  ELSE IF Head(a) = Head(b) THEN DistanciaDeEdicao(Tail(a), Tail(b))
  ELSE 1 + Min2(DistanciaDeEdicao(Tail(a), Tail(b)),
                Min2(DistanciaDeEdicao(Tail(a), b), DistanciaDeEdicao(a, Tail(b))))

\* C14: every distance of the search results is the edit distance to the query.
C14_DistanciaMinima ==
  app.modo = "Buscar" =>
    \A i \in 1..Len(app.buscar_results) :
      LET r == app.buscar_results[i] IN
        /\ r.dist = DistanciaDeEdicao(r.codigo, app.input)
        /\ r.codigo = app.input => r.dist = 0
        /\ app.input = <<>> => r.dist = Len(r.codigo)

\* C15: the ranking the search view holds for the query in its buffer has every
\* registered code exactly once, with the quantity now in the store and its
\* distance to the query, in non-decreasing order of distance; a code equal to
\* the query is at distance 0 and ranked first.
C15_RankingDaBusca ==
  app.modo = "Buscar" =>
    LET res == app.buscar_results IN
      /\ Len(res) = Cardinality(DOMAIN app.relogios)
      /\ {res[i].codigo : i \in 1..Len(res)} = DOMAIN app.relogios
      /\ \A i \in 1..Len(res) :
           /\ res[i].quantidade = app.relogios[res[i].codigo]
           /\ res[i].dist = DistanciaDeEdicao(res[i].codigo, app.input)
      /\ \A i, j \in 1..Len(res) : i < j => res[i].dist <= res[j].dist
      /\ app.input \in DOMAIN app.relogios =>
           res[1].codigo = app.input /\ res[1].dist = 0

\* C16: while the history-search view is editing, its ranked suggestions hold
\* every distinct code of the history as it is at that moment, the codes first
\* registered or bought in this session included.
C16_SugestoesCobremHistorico ==
  (app.modo = "Historico" /\ app.editing) =>
    \A i \in 1..Len(app.historico) :
      \E k \in 1..Len(app.historico_search_results) :
        app.historico_search_results[k].codigo = app.historico[i].codigo

\* The filter a confirm of the history search leaves when it filters by cod:
\* the entries of cod, or no filter when cod is empty or has no entry.
FiltroPor(cod) ==
  LET Keep(h) == h.codigo = cod
      hist == SelectSeq(app.historico, Keep)
  IN IF cod = <<>> \/ hist = <<>> THEN None ELSE Some(hist)

ConfirmaFiltroPor(cod) ==
  /\ estado' = "rodando"
  /\ app'.historico_filtrado = FiltroPor(cod)
  /\ app'.editing = FALSE
  /\ app'.input = <<>>

\* C17 as stated: the confirm of the history search filters by the top-ranked
\* suggestion (index 0) when there are suggestions, wherever the suggestion
\* cursor is, and by the raw typed text otherwise.
C17_ConfirmaPrimeiraSugestao ==
  [][HistoricoEnter =>
       ConfirmaFiltroPor(IF app.historico_search_results # <<>>
                         THEN app.historico_search_results[1].codigo
                         ELSE app.input)]_vars

\* C17 amended: the confirm of the history search filters by the suggestion
\* under the suggestion cursor (the top-ranked one unless up/down moved the
\* cursor) when there are suggestions, and by the typed text trimmed of
\* surrounding whitespace otherwise.
C17_ConfirmaSugestaoSelecionada ==
  [][HistoricoEnter =>
       ConfirmaFiltroPor(
         IF app.historico_search_results # <<>>
         THEN app.historico_search_results[app.historico_search_selected + 1].codigo
         ELSE Trim(app.input))]_vars

\* C17 witness: the history filtered by a suggestion that is not the top-ranked
\* one, the suggestion cursor still on it.
C17_FiltradoPelaSelecionada ==
  /\ app.modo = "Historico" /\ ~app.editing
  /\ app.historico_search_selected > 0
  /\ app.historico_filtrado # None
  /\ app.historico_filtrado[1][1].codigo =
       app.historico_search_results[app.historico_search_selected + 1].codigo
  /\ app.historico_filtrado[1][1].codigo # app.historico_search_results[1].codigo

\* C18: in the stock list or the search view, not editing, a confirm on a list
\* with rows sets chosen_relogio to the code of the row at the cursor's selected
\* index and clears chosen_operation; on an empty list it changes nothing.
C18_ConfirmaSeleciona ==
  [][(KeyEnter /\ app.modo \in {"Estoques", "Buscar"}) =>
       LET lista == IF app.modo = "Estoques" THEN app.estoques_list
                    ELSE app.buscar_results
           sel == IF app.modo = "Estoques" THEN app.estoques_selected
                  ELSE app.buscar_selected
       IN /\ estado' = "rodando"
          /\ IF lista = <<>>
             THEN app' = [app EXCEPT !.mensagens = <<>>]
             ELSE /\ sel < Len(lista)
                  /\ app'.chosen_relogio = Some(lista[sel + 1].codigo)
                  /\ app'.chosen_operation = None
                  /\ app'.modo = app.modo
                  /\ app'.relogios = app.relogios]_vars

\* C18 witness: in the search view, a row below the first selected and chosen.
C18_LinhaEscolhida ==
  /\ app.modo = "Buscar" /\ ~app.editing
  /\ app.buscar_selected > 0
  /\ app.chosen_relogio = Some(app.buscar_results[app.buscar_selected + 1].codigo)
  /\ app.chosen_operation = None
  /\ app.mensagens # <<>>

\* C19: the buy-op key and the sell-op key act only when the view is not
\* editing, a code is chosen and the mode is Estoques or Buscar: the step then
\* sets chosen_operation, enters Compra or Venda with editing on and sets the
\* buffer to the chosen code followed by one space.  In every other state the
\* key (a character typed into the buffer when editing) changes neither the
\* mode, nor the chosen code and operation, nor the store.
OperacaoValida ==
  ~app.editing /\ app.chosen_relogio # None /\ app.modo \in {"Estoques", "Buscar"}

AbreFormulario(op, modo) ==
  /\ estado' = "rodando"
  /\ app'.chosen_operation = Some(op)
  /\ app'.chosen_relogio = app.chosen_relogio
  /\ app'.modo = modo
  /\ app'.editing = TRUE
  /\ app'.input = app.chosen_relogio[1] \o <<" ">>
  /\ app'.relogios = app.relogios
  /\ app'.historico = app.historico

SemEfeito ==
  /\ estado' = "rodando"
  /\ app'.modo = app.modo
  /\ app'.editing = app.editing
  /\ app'.chosen_relogio = app.chosen_relogio
  /\ app'.chosen_operation = app.chosen_operation
  /\ app'.relogios = app.relogios
  /\ app'.historico = app.historico

\* The key 'a' pressed while editing: KeyCode::Char('a') of the editing arms.
TeclaAEditando ==
  /\ CadastroChar \/ BuscarChar \/ HistoricoChar \/ CompraChar \/ VendaChar
  /\ app'.input = Append(app.input, "a")

\* C19: the operation keys open the form when valid and have no effect otherwise.
C19_TeclasDeOperacao ==
  [][/\ (KeyA /\ OperacaoValida) => AbreFormulario("A", "Compra")
     /\ (KeyV /\ OperacaoValida) => AbreFormulario("V", "Venda")
     /\ ((KeyA \/ KeyV) /\ ~OperacaoValida) => SemEfeito
     /\ TeclaAEditando => SemEfeito]_vars

\* C19 witness: the sell form just opened on the chosen code.
C19_FormularioDeVendaAberto ==
  /\ app.modo = "Venda" /\ app.editing
  /\ app.chosen_relogio # None
  /\ app.chosen_operation = Some("V")
  /\ app.input = app.chosen_relogio[1] \o <<" ">>
  /\ Len(app.chosen_relogio[1]) = 2

\* C20: in the buy form and the sell form a confirm always ends in Estoques
\* with editing off, the buffer empty and no code or operation chosen, whether
\* or not the buffer parsed and the buy or sell was accepted; a cancel ends in
\* the same state and leaves the Items and the history as they were.
FormularioFechado ==
  /\ estado' = "rodando"
  /\ app'.modo = "Estoques"
  /\ app'.editing = FALSE
  /\ app'.input = <<>>
  /\ app'.chosen_relogio = None
  /\ app'.chosen_operation = None

\* C20: every confirm and cancel of the two forms ends with the form closed.
C20_FormularioSempreFecha ==
  [][/\ (CompraEnter \/ VendaEnter) => FormularioFechado
     /\ (CompraEsc \/ VendaEsc) =>
          /\ FormularioFechado
          /\ app'.relogios = app.relogios
          /\ app'.historico = app.historico]_vars

\* C21: in Cadastro while editing, a confirm and a cancel both end in Estoques
\* with editing off, the buffer empty and no code or operation chosen, also
\* when a code was chosen in the stock list or the search view before.
C21_CadastroLimpaSelecao ==
  [][(CadastroEnter \/ CadastroEsc) => FormularioFechado]_vars

\* The messages a confirm pushes for a buffer it cannot use.
MensagensDeErro ==
  {<<MsgSimples("quantidade_invalida")>>, <<MsgSimples("formato_incorreto")>>}

\* C22: in Cadastro, Compra and Venda, the confirm of a buffer that does not
\* hold two tokens, or whose second token is not an integer, leaves the Items
\* and the history as they were and pushes an error message to the log.
C22_EntradaMalformada ==
  [][((CadastroEnter \/ CompraEnter \/ VendaEnter) /\ ~Parsable(app)) =>
       /\ Retornou
       /\ app'.relogios = app.relogios
       /\ app'.historico = app.historico
       /\ app'.mensagens \in MensagensDeErro]_vars

\* The history view with its cursor at the top.
CursorDoHistoricoNoTopo ==
  app'.historico_offset = 0 /\ app'.historico_selected = 0

\* C23 as stated: from every state that is not editing, the history view with a
\* moved cursor included, the enter-history key ends in Historico with editing
\* off and the history cursor at (offset 0, selected 0).  (Stated of the step
\* the key can take from each reachable state: in the history view the key
\* changes nothing, and a step that changes nothing is seen by no step formula.)
C23_EntraHistoricoSempreReinicia ==
  ~ENABLED (/\ KeyH
            /\ ~(/\ Retornou
                 /\ app'.modo = "Historico"
                 /\ app'.editing = FALSE
                 /\ CursorDoHistoricoNoTopo))

\* C23 amended: from every state that is not editing, the enter-history key
\* ends in Historico with editing off; it puts the history cursor at (0, 0)
\* when the view was another one, and leaves the cursor, the tab and the filter
\* where they were when the view was already Historico.
C23_EntraHistorico ==
  ~ENABLED (/\ KeyH
            /\ ~(/\ Retornou
                 /\ app'.modo = "Historico"
                 /\ app'.editing = FALSE
                 /\ IF app.modo # "Historico"
                    THEN CursorDoHistoricoNoTopo
                    ELSE app' = [app EXCEPT !.mensagens = <<>>]))

\* C23 witness: the history view just entered from another view, its cursor at
\* the top of a history that scrolls, after an earlier visit that changed the tab.
C23_HistoricoReaberto ==
  /\ app.modo = "Historico" /\ ~app.editing
  /\ app.mensagens = <<MsgSimples("ajuda_historico")>>
  /\ app.historico_tab # "Todos"
  /\ Len(app.historico) > VisHeight
  /\ app.historico_offset = 0 /\ app.historico_selected = 0

\* C24: from every state that is not editing, a cancel ends in Estoques with no
\* code or operation chosen, no history filter, the buffer empty and editing
\* off, and leaves the Items and the history as they were.
C24_CancelaForaDaEdicao ==
  [][KeyEsc =>
       /\ FormularioFechado
       /\ app'.historico_filtrado = None
       /\ app'.relogios = app.relogios
       /\ app'.historico = app.historico]_vars

\* C24 witness: the stock list just after a cancel, in a session that registered
\* twice and had moved the history view to another tab.
C24_Cancelado ==
  /\ app.modo = "Estoques" /\ ~app.editing
  /\ app.mensagens = <<MsgSimples("selecao_cancelada")>>
  /\ app.historico_tab # "Todos"
  /\ Len(app.historico) = 2
  /\ app.chosen_relogio = None
  /\ app.historico_filtrado = None

\* The key 'x' pressed while editing: KeyCode::Char('x') of the editing arms.
TeclaXEditando ==
  /\ CadastroChar \/ BuscarChar \/ HistoricoChar \/ CompraChar \/ VendaChar
  /\ app'.input = Append(app.input, "x")

\* The views whose editing arm has a KeyCode::Char(ch) that pushes to the buffer.
ModosComBuffer == {"Cadastro", "Buscar", "Historico", "Compra", "Venda"}

\* C25: in every view, while not editing, the quit key can be pressed and ends
\* the loop; while editing the quit key's arm cannot be taken, no key ends the
\* loop, the view is one whose editing arm takes characters, and the key is a
\* character appended to the buffer, the view still editing and the loop still
\* running.
C25_SairSoForaDaEdicao ==
  /\ [](/\ NaoEditando => ENABLED KeyX
        /\ (estado = "rodando" /\ app.editing) => ~ENABLED KeyX
        /\ (estado = "rodando" /\ app.editing) => app.modo \in ModosComBuffer)
  /\ [][/\ KeyX => estado' = "encerrado"
        /\ app.editing => estado' # "encerrado"
        /\ TeclaXEditando =>
             /\ Retornou
             /\ app'.editing
             /\ app'.modo = app.modo
             /\ app'.relogios = app.relogios
             /\ app'.historico = app.historico]_vars

\* C25 witness: the loop ended by the quit key in the search view, after the
\* same key was typed as a character of the query and the query confirmed.
C25_SaiuDaBusca ==
  /\ estado = "encerrado"
  /\ app.modo = "Buscar"
  /\ app.input # <<>> /\ app.input[Len(app.input)] = "x"
  /\ app.relogios # <<>>

\* The step is a register, a buy or an accepted sell.
ChamadaAceita == ChamaCadastrar \/ ChamaComprar \/ (ChamaVender /\ VendaAceita)

\* estoque.json after the step holds all the Items and the whole history the
\* program holds after the step.
ArquivoIgualAMemoria ==
  arquivo' = [estado |-> "valido", relogios |-> app'.relogios,
              historico |-> app'.historico]

\* The Items, the history and the mode the program holds after the call.
MemoriaAposChamada ==
  /\ app'.modo = "Estoques"
  /\ IF ChamaCadastrar THEN ItemPassaA(QtdDigitada) /\ Acrescenta("CADASTRO")
     ELSE IF ChamaComprar
     THEN /\ ItemPassaA(IF CodigoDigitado \in DOMAIN app.relogios
                        THEN app.relogios[CodigoDigitado] + QtdDigitada
                        ELSE QtdDigitada)
          /\ Acrescenta("COMPRA")
     ELSE /\ ItemPassaA(app.relogios[CodigoDigitado] - QtdDigitada)
          /\ Acrescenta("VENDA")

\* C26: every register, buy and accepted sell updates the Items and the
\* history and then writes all the Items and the whole history, with one of
\* the outcomes the disk has: when the write succeeds estoque.json equals the
\* store in memory (on a disk that works, after every such call); when it
\* fails (the file left as it was, or left unreadable) the loop keeps running
\* and the Items, the history and the mode in memory are those of the call,
\* the same as after a write that succeeds.
C26_EscritaCompleta ==
  [][ChamadaAceita =>
       /\ Retornou
       /\ MemoriaAposChamada
       /\ \E resultado \in ambiente.escritas :
            CASE resultado = "ok" -> ArquivoIgualAMemoria
              [] resultado = "create_falhou" -> arquivo' = arquivo
              [] resultado = "write_falhou" -> arquivo' = ArquivoCorrompido]_vars

\* C26 witness: on a disk that does either, a register whose write succeeded
\* and then a sell whose write failed after the file was created: the store in
\* memory has both, the file is unreadable.
C26_EscritaFalhou ==
  /\ ambiente.escritas = ResultadosEscrita
  /\ Len(app.historico) = 2
  /\ app.historico[2].operacao = "VENDA"
  /\ app.relogios[app.historico[2].codigo] = 0
  /\ arquivo = ArquivoCorrompido
  /\ estado = "rodando"

\* Every index the loop uses is within its list: the offset each view slices
\* its list from, the row a confirm reads in the stock list and in the search
\* results, the suggestion a confirm of the history search reads.
IndicesDentroDasListas ==
  /\ app.estoques_offset <= Len(app.estoques_list)
  /\ app.cadastro_offset <= Len(app.cadastro_list)
  /\ app.buscar_offset <= Len(app.buscar_results)
  /\ app.historico_offset <= Len(get_historico_atual_vec(app))
  /\ app.estoques_list # <<>> => app.estoques_selected < Len(app.estoques_list)
  /\ app.buscar_results # <<>> => app.buscar_selected < Len(app.buscar_results)
  /\ app.historico_search_results # <<>> =>
       app.historico_search_selected < Len(app.historico_search_results)

\* C27: no sequence of keys leads to an access out of range (in every reachable
\* state every index the loop uses is within its list), and the loop is ended
\* by the quit key only.
C27_SoSairEncerra ==
  /\ []IndicesDentroDasListas
  /\ [][estado' # "rodando" => KeyX]_vars

\* The search results are a ranking of the store against the buffer: every
\* Item of the store once, with its quantity and its distance D to the buffer,
\* in non-decreasing order of distance.
RankingAtual(D(_, _)) ==
  LET res == app.buscar_results IN
    /\ Len(res) = Cardinality(DOMAIN app.relogios)
    /\ {res[i].codigo : i \in 1..Len(res)} = DOMAIN app.relogios
    /\ \A i \in 1..Len(res) :
         /\ res[i].quantidade = app.relogios[res[i].codigo]
         /\ res[i].dist = D(res[i].codigo, app.input)
    /\ \A i, j \in 1..Len(res) : i < j => res[i].dist <= res[j].dist

\* C28: whenever the view is Buscar, editing or not, the search results are the
\* ranking by ascending edit distance of all the Items now in the store, with
\* their quantities, against the buffer as it is; entering the view ranks
\* against the empty buffer, and a confirm stops editing and leaves the results
\* and the buffer as they were.
C28_ResultadosAtuais ==
  /\ [](app.modo = "Buscar" => RankingAtual(DistanciaDeEdicao))
  /\ [][/\ KeyB => (app'.modo = "Buscar" /\ app'.editing /\ app'.input = <<>>)
        /\ BuscarEnter =>
             /\ app'.modo = "Buscar"
             /\ app'.editing = FALSE
             /\ app'.buscar_results = app.buscar_results
             /\ app'.input = app.input]_vars

\* The number a string of decimal digits writes.
RECURSIVE ValorDecimal(_)
ValorDecimal(s) ==
  IF s = <<>> THEN 0
  ELSE ValorDecimal(SubSeq(s, 1, Len(s) - 1)) * 10 + (CharCode(s[Len(s)]) - 48)

\* What the operator typed after the code and the space the form was opened with.
DigitadoAposPrefixo ==
  SubSeq(app.input, Len(app.chosen_relogio[1]) + 2, Len(app.input))

\* The buffer is the one the form was opened with, the chosen code and a space,
\* followed by one or more decimal digits.
SoDigitosAcrescentados ==
  /\ app.chosen_relogio # None
  /\ IsPrefix(app.chosen_relogio[1] \o <<" ">>, app.input)
  /\ DigitadoAposPrefixo # <<>>
  /\ \A i \in 1..Len(DigitadoAposPrefixo) : IsDigit(DigitadoAposPrefixo[i])

\* The confirm calls the store with the chosen code and the quantity typed.
ChamadaComEscolhido ==
  /\ Parsable(app)
  /\ CodigoDigitado = app.chosen_relogio[1]
  /\ QtdDigitada = ValorDecimal(DigitadoAposPrefixo)

CodigoAplicado ==
  IF app.historico_search_results # <<>>
  THEN app.historico_search_results[app.historico_search_selected + 1].codigo
  ELSE Trim(app.input)

\* The history search is closed: editing off, the buffer empty, the view still
\* Historico and its cursor at the top.
PesquisaFechada ==
  /\ Retornou
  /\ app'.editing = FALSE
  /\ app'.input = <<>>
  /\ app'.modo = "Historico"
  /\ CursorDoHistoricoNoTopo

\* C30: in Historico while editing, a confirm and a cancel both end with
\* editing off, the buffer empty, the view still Historico and the history
\* cursor at (0, 0); after a cancel no code filter is active; after a confirm the
\* filter is the entries of the history whose code is exactly the code applied,
\* in the order of the history, or no filter when that code is empty or has no
\* entry.
C30_FechaPesquisaDoHistorico ==
  [][/\ HistoricoEsc => (PesquisaFechada /\ app'.historico_filtrado = None)
     /\ HistoricoEnter =>
          /\ PesquisaFechada
          /\ app'.historico_filtrado =
               IF CodigoAplicado = <<>> THEN None
               ELSE IF \A i \in 1..Len(app.historico) :
                         app.historico[i].codigo # CodigoAplicado
               THEN None
               ELSE Some(SelectSeq(app.historico,
                                   LAMBDA h : h.codigo = CodigoAplicado))]_vars

\* C30 witness: a history that scrolls, filtered by a confirm of the search: the
\* filter active, the view Historico, editing off, the cursor at the top.
C30_FiltroAplicado ==
  /\ app.modo = "Historico" /\ ~app.editing /\ app.input = <<>>
  /\ Len(app.historico) > VisHeight
  /\ app.historico_filtrado # None
  /\ app.mensagens = <<Msg("historico_filtrado", app.historico_filtrado[1][1].codigo, 0)>>
  /\ app.historico_offset = 0 /\ app.historico_selected = 0

\* The cycle of the tabs of the history view.
CicloDasAbas == <<"Todos", "Compras", "Vendas", "Aquisicoes">>

PosicaoNoCiclo(tab) == CHOOSE i \in 1..4 : CicloDasAbas[i] = tab

\* app' is app with the tab moved `passos` places along the cycle, the history
\* cursor at the top, the messages of the event, and nothing else changed.
AbaMovida(passos) ==
  /\ Retornou
  /\ app' = [app EXCEPT
               !.historico_tab =
                  CicloDasAbas[((PosicaoNoCiclo(@) - 1 + passos) % 4) + 1],
               !.historico_offset = 0, !.historico_selected = 0,
               !.mensagens = <<>>]

\* C31: in Historico while not editing, Right and Left move the tab to the next
\* and the previous element of the cycle Todos, Compras, Vendas, Aquisicoes,
\* wrapping at both ends; Left undoes Right, four Rights come back to the tab
\* they started from, and every change of tab puts the history cursor at
\* (0, 0); outside Historico Left and Right change nothing.
C31_CicloDasAbas ==
  [][/\ (KeyRight /\ app.modo = "Historico") =>
          /\ AbaMovida(1)
          /\ historico_tab_prev(app').historico_tab = app.historico_tab
          /\ historico_tab_next(historico_tab_next(historico_tab_next(app')))
               .historico_tab = app.historico_tab
     /\ (KeyLeft /\ app.modo = "Historico") =>
          /\ AbaMovida(3)
          /\ historico_tab_next(app').historico_tab = app.historico_tab
     /\ ((KeyLeft \/ KeyRight) /\ app.modo # "Historico") =>
          /\ Retornou
          /\ app' = [app EXCEPT !.mensagens = <<>>]]_vars

\* C31 witness: a history that scrolls, on the tab two places after the first,
\* the cursor at the top, with no message of an entry into the view.
C31_AbaVendas ==
  /\ app.modo = "Historico" /\ ~app.editing
  /\ app.historico_tab = "Vendas"
  /\ app.mensagens = <<>>
  /\ Len(app.historico) > VisHeight
  /\ app.historico_offset = 0 /\ app.historico_selected = 0

\* lista is the Items of the store, one row each, in ascending order of code.
EstoqueEmOrdem(lista) ==
  /\ Len(lista) = Cardinality(DOMAIN app.relogios)
  /\ \A i \in 1..Len(lista) :
       /\ lista[i].codigo \in DOMAIN app.relogios
       /\ lista[i].quantidade = app.relogios[lista[i].codigo]
  /\ \A i, j \in 1..Len(lista) : i < j => StrLess(lista[i].codigo, lista[j].codigo)

\* C32: in every reachable state the list the Estoques view navigates and
\* selects from is exactly the Items of the store sorted by code ascending; it
\* is never stale after a register, a buy or a sell, accepted or rejected.
C32_ListaDoEstoqueAtual == EstoqueEmOrdem(app.estoques_list)

\* C32 witness: a store of two Items just after a sell that was rejected for
\* lack of stock.
C32_VendaRejeitada ==
  /\ app.mensagens = <<MsgSimples("sem_estoque")>>
  /\ Len(app.estoques_list) = 2
  /\ app.modo = "Estoques"

\* The position reclamp(n) leaves: max(n - 1, 0) for a position at or beyond n,
\* the position itself otherwise.
Recolocado(pos, n) == IF pos >= n THEN (IF n - 1 > 0 THEN n - 1 ELSE 0) ELSE pos

\* The step refreshes the stock list and the registration list.
AtualizaListasDoEstoque == ChamaCadastrar \/ ChamaComprar \/ ChamaVender

\* The step refreshes the search results.
AtualizaResultadosDaBusca == KeyB \/ BuscarChar \/ BuscarBackspace

C34_CompraSemEstouro ==
  [][ChamaComprar =>
       /\ Retornou
       /\ CodigoDigitado \in DOMAIN app'.relogios
       /\ IF CodigoDigitado \in DOMAIN app.relogios
          THEN /\ (QtdDigitada >= 0 =>
                     app'.relogios[CodigoDigitado] >= app.relogios[CodigoDigitado])
               /\ ~AddOverflows(app.relogios[CodigoDigitado], QtdDigitada)
               /\ app'.relogios[CodigoDigitado] =
                    app.relogios[CodigoDigitado] + QtdDigitada
          ELSE app'.relogios[CodigoDigitado] = QtdDigitada]_vars

\* C35: in every reachable state chosen_operation is set if and only if the mode
\* is Compra or Venda; it is 'A' exactly in Compra and 'V' exactly in Venda; and
\* in both forms chosen_relogio is set.
C35_OperacaoSoNosFormularios ==
  /\ app.chosen_operation # None <=> app.modo \in {"Compra", "Venda"}
  /\ app.chosen_operation = Some("A") <=> app.modo = "Compra"
  /\ app.chosen_operation = Some("V") <=> app.modo = "Venda"
  /\ app.modo \in {"Compra", "Venda"} => app.chosen_relogio # None

\* C35 witness: the sell form open on a selected code, a digit typed after the
\* prefix.
C35_FormularioDeVenda ==
  /\ app.modo = "Venda" /\ app.editing
  /\ app.chosen_operation = Some("V")
  /\ app.chosen_relogio # None
  /\ Len(app.input) = Len(app.chosen_relogio[1]) + 2

\* C36: in every reachable state the editing flag agrees with the mode:
\* Cadastro, Compra and Venda are always editing, Estoques and Grafico are never
\* editing, and only Buscar and Historico occur both editing and not editing;
\* so the program is never editing in a mode whose editing match handles no
\* key, and never in Cadastro without editing.
C36_EdicaoConformeOModo ==
  /\ app.modo \in {"Cadastro", "Compra", "Venda"} => app.editing
  /\ app.modo \in {"Estoques", "Grafico"} => ~app.editing
  /\ app.editing => app.modo \in {"Cadastro", "Buscar", "Historico", "Compra", "Venda"}
  /\ ~app.editing => app.modo \in {"Estoques", "Buscar", "Historico", "Grafico"}

\* C36 witness: the search view after its confirm, editing off, the query still
\* in the buffer.
C36_BuscaConfirmada ==
  /\ app.modo = "Buscar" /\ ~app.editing
  /\ app.input # <<>>
  /\ app.buscar_results # <<>>

\* The search view, editing.
C36_BuscaEditando == app.modo = "Buscar" /\ app.editing /\ app.input # <<>>

\* The history view, with its search open.
C36_HistoricoEditando == app.modo = "Historico" /\ app.editing /\ app.input # <<>>

\* The history view, rows shown.
C36_HistoricoVendo == app.modo = "Historico" /\ ~app.editing /\ app.historico # <<>>

\* The chart.
C36_GraficoAberto == app.modo = "Grafico" /\ app.historico # <<>>

\* The filter, when one is active, is not empty, holds entries of one code only
\* and is the entries of that code in the full history, in its order.
FiltroEmDia ==
  app.historico_filtrado # None =>
    LET filtrado == app.historico_filtrado[1] IN
      /\ filtrado # <<>>
      /\ \A i \in 1..Len(filtrado) : filtrado[i].codigo = filtrado[1].codigo
      /\ filtrado = SelectSeq(app.historico,
                              LAMBDA h : h.codigo = filtrado[1].codigo)

\* C37: whenever a code filter of the history is active, the filtered sequence
\* is not empty, all its entries have one and the same code, and it is the
\* entries of exactly that code in the current full history; it is never stale,
\* because no register, buy or sell happens while a filter is active.
C37_FiltroNuncaVelho ==
  /\ []FiltroEmDia
  /\ [][(ChamaCadastrar \/ ChamaComprar \/ ChamaVender) =>
          app.historico_filtrado = None]_vars

\* C37 witness: the filter of one code of a history that holds another code
\* too, still active after leaving the history view for the chart.
C37_FiltroNoGrafico ==
  /\ app.modo = "Grafico"
  /\ app.historico_filtrado # None
  /\ Len(app.historico_filtrado[1]) < Len(app.historico)

\* The step leaves the Items and the history as they were.
EstoqueEHistoricoIguais ==
  /\ app'.relogios = app.relogios
  /\ app'.historico = app.historico

\* The step is a confirm while editing in Cadastro, Compra or Venda.
ConfirmaFormulario == CadastroEnter \/ CompraEnter \/ VendaEnter

\* The step is any other key: navigation, mode entry, cancel, selection, choice
\* of operation, editing of a buffer, search and filter of the history, tabs.
TeclaQueNaoConfirma ==
  \/ CadastroEsc \/ CadastroBackspace \/ CadastroChar
  \/ BuscarEnter \/ BuscarEsc \/ BuscarBackspace \/ BuscarChar
  \/ HistoricoEnter \/ HistoricoEsc \/ HistoricoBackspace \/ HistoricoChar
  \/ HistoricoSearchUp \/ HistoricoSearchDown
  \/ CompraEsc \/ CompraBackspace \/ CompraChar
  \/ VendaEsc \/ VendaBackspace \/ VendaChar
  \/ KeyX \/ KeyEsc \/ KeyC \/ KeyB \/ KeyH \/ KeyG \/ KeyLeft \/ KeyRight
  \/ KeyUp \/ KeyDown \/ KeyEnter \/ KeyA \/ KeyV \/ KeyP
  \/ OutraTecla

\* C38: the Items and the history change only on a confirm while editing in
\* Cadastro, Compra or Venda; every other key event, in every mode, leaves the
\* Items and the history unchanged.
C38_SoConfirmacaoMudaOEstoque ==
  [][/\ ~EstoqueEHistoricoIguais => ConfirmaFormulario
     /\ TeclaQueNaoConfirma => EstoqueEHistoricoIguais]_vars

\* C38 witness: a store and a history made by a confirm, then untouched by the
\* keys that opened the history, changed its tab and typed in its search.
C38_PesquisaComEstoque ==
  /\ app.modo = "Historico" /\ app.editing
  /\ app.input # <<>>
  /\ app.historico_tab # "Todos"
  /\ app.relogios # <<>> /\ app.historico # <<>>

\* KeyCode::Esc, in whichever arm takes it.
Cancelar == CadastroEsc \/ BuscarEsc \/ HistoricoEsc \/ CompraEsc \/ VendaEsc \/ KeyEsc

\* Estoques with editing off, the buffer empty, no history filter and nothing
\* selected.
EstoquesLimpo(a) ==
  /\ a.modo = "Estoques" /\ ~a.editing
  /\ a.input = <<>>
  /\ a.historico_filtrado = None
  /\ a.chosen_relogio = None /\ a.chosen_operation = None

\* From Estoques with nothing selected every view can be entered: the four
\* views by their keys, the two forms by selecting a row and choosing the
\* operation.
TodosOsModosAbertos ==
  /\ EstoquesLimpo(app) =>
       /\ ENABLED (KeyC /\ app'.modo = "Cadastro" /\ app'.editing)
       /\ ENABLED (KeyB /\ app'.modo = "Buscar" /\ app'.editing)
       /\ ENABLED (KeyH /\ app'.modo = "Historico" /\ ~app'.editing)
       /\ ENABLED (KeyG /\ app'.modo = "Grafico")
       /\ app.relogios # <<>> =>
            ENABLED (KeyEnter /\ app'.modo = "Estoques" /\ app'.chosen_relogio # None)
  /\ (app.modo = "Estoques" /\ app.chosen_relogio # None) =>
       /\ ENABLED (KeyA /\ app'.modo = "Compra" /\ app'.editing)
       /\ ENABLED (KeyV /\ app'.modo = "Venda" /\ app'.editing)

\* C39: from every reachable state of the loop one cancel gives a state that is
\* not editing, and two cancels in a row give Estoques with editing off, the
\* buffer empty, no history filter and nothing selected, from which the quit
\* key ends the program: cancel, cancel, quit is always possible, and every
\* view can be entered again afterwards.
C39_CancelaCancelaSai ==
  /\ [](estado = "rodando" =>
          /\ ENABLED Cancelar
          /\ ~ENABLED (Cancelar /\ ~(Retornou /\ ~app'.editing))
          /\ ~app.editing =>
               /\ ~ENABLED (Cancelar /\ ~EstoquesLimpo(app'))
               /\ ENABLED KeyX
               /\ TodosOsModosAbertos)
  /\ [][KeyX => estado' = "encerrado"]_vars

\* C39 witness: the program ended by the quit key after the cancel that left
\* Estoques with nothing selected, on a store that has Items.
C39_SaiuAposCancelar ==
  /\ estado = "encerrado"
  /\ EstoquesLimpo(app)
  /\ app.mensagens = <<MsgSimples("selecao_cancelada")>>
  /\ app.relogios # <<>>

\* C40: in every reachable state, when a code is chosen it is the code of an
\* Item that is in the store.
C40_EscolhidoEstaNoEstoque ==
  app.chosen_relogio # None => app.chosen_relogio[1] \in DOMAIN app.relogios

\* C40 witness: a code chosen before a register and still chosen after it, the
\* store changed in between.
C40_EscolhidoAntesDoCadastro ==
  /\ app.chosen_relogio # None
  /\ app.modo = "Estoques"
  /\ Len(app.mensagens) = 1 /\ app.mensagens[1].tipo = "cadastrado"
  /\ app.mensagens[1].codigo # app.chosen_relogio[1]

=============================================================================
